---------------------------- MODULE Spec2Model ----------------------------
(***************************************************************************)
(* A model of the AlphaTRAK Home Assistant integration: the API client     *)
(* (custom_components/alphatrak/api.py), the poll cycle of the data update *)
(* coordinator (coordinator.py), entry setup (__init__.py) and the         *)
(* reauthentication step of the config flow (config_flow.py).              *)
(*                                                                         *)
(* Representation.                                                         *)
(*   - A Python str is a sequence of naturals (its characters); the order  *)
(*     of two strs is Python's lexicographic order (StrLess).              *)
(*   - A dict key is a sequence of name segments: "GlucoseEntryDateTime"   *)
(*     is <<"Glucose", "EntryDate", "Time">>, so that str.endswith and the *)
(*     substring test are computed on the key.                             *)
(*   - A dict with insertion order (an activity entry) is a sequence of    *)
(*     fields [k |-> key, v |-> value].                                    *)
(*   - A scalar value is [kind, s, n]: a str (s), a number (n) or None.    *)
(*   - A token is a natural; None (no token) is NoToken.                   *)
(***************************************************************************)
EXTENDS Naturals, Sequences, FiniteSets

(***************************************************************************)
(* Bounds of the model.                                                    *)
(***************************************************************************)
\* longest BloodGlucose list a server response carries
MaxEntries == 3
\* tokens the login service hands out are 1..MaxToken
MaxToken == 2
MaxFields == 3
MaxPets == 2

(***************************************************************************)
(* Program constants.                                                      *)
(***************************************************************************)
\* token: str | None = None
NoToken == 0
HTTP_OK == 200
HTTP_UNAUTHORIZED == 401
HTTP_NOT_FOUND == 404
\* timedelta(days=7) of the glucose fetches, timedelta(days=1) of validation
POLL_WINDOW_DAYS == 7
VALIDATE_WINDOW_DAYS == 1

RESPONSE_BLOOD_GLUCOSE == "BloodGlucose"
RESPONSE_INSULIN == "Insulin"
Categories == {RESPONSE_BLOOD_GLUCOSE, RESPONSE_INSULIN}

(***************************************************************************)
(* Scalar values and strs.                                                 *)
(***************************************************************************)
StrV(s) == [kind |-> "str", s |-> s, n |-> 0]
NumV(n) == [kind |-> "num", s |-> <<>>, n |-> n]
NoneV == [kind |-> "none", s |-> <<>>, n |-> 0]

\* the empty str ""
EmptyStr == <<>>

RECURSIVE StrLess(_, _)
\* a < b on Python strs: lexicographic, a proper prefix is smaller
StrLess(a, b) ==
    IF a = <<>> THEN b # <<>>
    ELSE IF b = <<>> THEN FALSE
    ELSE IF Head(a) # Head(b) THEN Head(a) < Head(b)
    ELSE StrLess(Tail(a), Tail(b))

(***************************************************************************)
(* Keys.                                                                   *)
(***************************************************************************)
DATA_GLUCOSE_ENTRY_DATETIME == <<"Glucose", "EntryDate", "Time">>
DATA_INSULIN_ENTRY_DATETIME == <<"Insulin", "EntryDate", "Time">>
DATA_GLUCOSE_LEVEL == <<"GlucoseLevel">>
DATA_INSULIN_DOSE == <<"InsulinDose">>
RESPONSE_MIN_RANGE == <<"MinRange">>
RESPONSE_MAX_RANGE == <<"MaxRange">>
\* a timestamp field of another name: "ReadingEntryDateTime"
KEY_READING_ENTRY_DATETIME == <<"Reading", "EntryDate", "Time">>

\* key.endswith("EntryDateTime")
EndsWithEntryDateTime(key) ==
    /\ Len(key) >= 2
    /\ key[Len(key) - 1] = "EntryDate"
    /\ key[Len(key)] = "Time"

\* "EntryDateTime" in key
ContainsEntryDateTime(key) ==
    \E i \in 1..(Len(key) - 1) : key[i] = "EntryDate" /\ key[i + 1] = "Time"

\* "EntryDate" in key
ContainsEntryDate(key) ==
    \E i \in 1..Len(key) : key[i] = "EntryDate"

(***************************************************************************)
(* Ordered dicts.                                                          *)
(***************************************************************************)
HasKey(entry, key) == \E i \in 1..Len(entry) : entry[i].k = key

\* entry.get(key, default)
DictGet(entry, key, default) ==
    IF HasKey(entry, key)
    THEN entry[CHOOSE i \in 1..Len(entry) : entry[i].k = key].v
    ELSE default

\* entry[key] = val: an existing key keeps its place, a new one goes last
DictSet(entry, key, val) ==
    IF HasKey(entry, key)
    THEN [i \in 1..Len(entry) |->
            IF entry[i].k = key THEN [k |-> key, v |-> val] ELSE entry[i]]
    ELSE Append(entry, [k |-> key, v |-> val])

Min(S) == CHOOSE x \in S : \A y \in S : x <= y

(***************************************************************************)
(* Activity entries and payloads of the model.                             *)
(***************************************************************************)
Field(key, val) == [k |-> key, v |-> val]

\* timestamps "2024-01-01T08:00:00", "2024-01-02T08:00:00", "2024-01-03T08:00:00"
\* (the characters that differ)
TS_JAN01 == <<0, 1>>
TS_JAN02 == <<0, 2>>
TS_JAN03 == <<0, 3>>

GlucoseEntry(ts, level) ==
    <<Field(DATA_GLUCOSE_ENTRY_DATETIME, StrV(ts)), Field(DATA_GLUCOSE_LEVEL, NumV(level))>>

E_JAN01 == GlucoseEntry(TS_JAN01, 110)
E_JAN02 == GlucoseEntry(TS_JAN02, 95)
\* a second reading of the same instant as E_JAN02
E_JAN02B == GlucoseEntry(TS_JAN02, 80)
\* a reading whose timestamp field is not named GlucoseEntryDateTime
E_ALT == <<Field(DATA_GLUCOSE_LEVEL, NumV(120)), Field(KEY_READING_ENTRY_DATETIME, StrV(TS_JAN03))>>
\* a reading without any timestamp field
E_NODATE == <<Field(DATA_GLUCOSE_LEVEL, NumV(101))>>

I_JAN01 == <<Field(DATA_INSULIN_ENTRY_DATETIME, StrV(TS_JAN01)), Field(DATA_INSULIN_DOSE, NumV(2))>>
I_JAN02 == <<Field(DATA_INSULIN_ENTRY_DATETIME, StrV(TS_JAN02)), Field(DATA_INSULIN_DOSE, NumV(3))>>

GlucoseEntries == {E_JAN01, E_JAN02, E_JAN02B, E_ALT, E_NODATE}

\* all lists of at most n elements of S
ListsUpTo(S, n) == UNION {[1..m -> S] : m \in 0..n}

\* One category of PetActivity: the key is missing, or it holds a list.
CatMissing == [st |-> "missing", l |-> <<>>]
CatList(l) == [st |-> "list", l |-> l]

\* ResponseData: present is "missing" (no such key), "null" or "value"; pa says
\* whether the value has a PetActivity dict; min and max are what
\* .get(MinRange) and .get(MaxRange) return (None when missing).
MkPayload(pa, bg, ins, lo, hi) ==
    [present |-> "value", pa |-> pa,
     cats |-> [c \in Categories |-> IF c = RESPONSE_BLOOD_GLUCOSE THEN bg ELSE ins],
     min |-> lo, max |-> hi]

NonePayload ==
    [present |-> "null", pa |-> "missing",
     cats |-> [c \in Categories |-> CatMissing], min |-> NoneV, max |-> NoneV]
MissingPayload == [NonePayload EXCEPT !.present = "missing"]

\* ResponseData without a PetActivity key
NoActivityPayload == MkPayload("missing", CatMissing, CatMissing, NumV(70), NumV(180))

IsNone(payload) == payload.present # "value"

(***************************************************************************)
(* Activity normalizer (api.py).                                           *)
(***************************************************************************)
\* one loop over the fields that returns the first str value whose key
\* passes any of the three tests
_extract_entry_datetime_single_pass(entry) ==
    LET any == {i \in 1..Len(entry) : ContainsEntryDate(entry[i].k)
                                        /\ entry[i].v.kind = "str"}
    IN  IF any # {} THEN entry[Min(any)].v.s ELSE EmptyStr

\* the first loop alone, without the loops over the alternatives
_extract_entry_datetime_first_pass_only(entry) ==
    LET first == {i \in 1..Len(entry) : EndsWithEntryDateTime(entry[i].k)
                                          /\ entry[i].v.kind = "str"}
    IN  IF first # {} THEN entry[Min(first)].v.s ELSE EmptyStr

\* AlphaTrakApi._extract_entry_datetime: the str value of the first field whose
\* key ends in EntryDateTime, else of the first whose key contains
\* EntryDateTime, else of the first whose key contains EntryDate, else "".
_extract_entry_datetime(entry) ==
    LET isStr(i) == entry[i].v.kind = "str"
        first == {i \in 1..Len(entry) : EndsWithEntryDateTime(entry[i].k) /\ isStr(i)}
        second == {i \in 1..Len(entry) : ContainsEntryDateTime(entry[i].k) /\ isStr(i)}
        third == {i \in 1..Len(entry) : ContainsEntryDate(entry[i].k) /\ isStr(i)}
    IN  IF first # {} THEN entry[Min(first)].v.s
        ELSE IF second # {} THEN entry[Min(second)].v.s
        ELSE IF third # {} THEN entry[Min(third)].v.s
        ELSE EmptyStr

RECURSIVE InsertDescending(_, _, _)
\* i put into perm (indices in descending order of keys) behind every index
\* whose key is not smaller: equal keys keep their order
InsertDescending(perm, i, keys) ==
    IF perm = <<>> THEN <<i>>
    ELSE IF StrLess(keys[Head(perm)], keys[i]) THEN <<i>> \o perm
    ELSE <<Head(perm)>> \o InsertDescending(Tail(perm), i, keys)

RECURSIVE SortedIndices(_, _)
\* the indices 1..n in the order sorted(..., reverse=True) gives them
SortedIndices(n, keys) ==
    IF n = 0 THEN <<>>
    ELSE InsertDescending(SortedIndices(n - 1, keys), n, keys)

\* a descending sort made of an ascending sort and a reversal: entries with
\* equal keys come out in reverse order
sorted_reverse_by_reversal(entries, keys) ==
    LET n == Len(entries)
        rank(i) == 1 + Cardinality({j \in 1..n :
                          \/ StrLess(keys[i], keys[j])
                          \/ (keys[j] = keys[i] /\ j > i)})
    IN  [p \in 1..n |-> entries[CHOOSE i \in 1..n : rank(i) = p]]

\* sorted(entries, key=..., reverse=True), keys[i] the key of entries[i]:
\* descending, stable
sorted_reverse(entries, keys) ==
    LET perm == SortedIndices(Len(entries), keys)
    IN  [i \in 1..Len(entries) |-> entries[perm[i]]]

\* a range annotation that sets a key only when the payload has a value for it
WithRange_skips_none(reading, min_range, max_range) ==
    LET with_min == IF min_range = NoneV THEN reading
                    ELSE DictSet(reading, RESPONSE_MIN_RANGE, min_range)
    IN  IF max_range = NoneV THEN with_min
        ELSE DictSet(with_min, RESPONSE_MAX_RANGE, max_range)

\* reading[MinRange] = min_range; reading[MaxRange] = max_range
WithRange(reading, min_range, max_range) ==
    DictSet(DictSet(reading, RESPONSE_MIN_RANGE, min_range), RESPONSE_MAX_RANGE, max_range)

\* What a call returns or raises: exc is "none" and val the value returned, or
\* exc names the exception raised.
Return(val) == [exc |-> "none", val |-> val]
Raise(exc, val) == [exc |-> exc, val |-> val]

\* dict | None results
NoEntry == [some |-> FALSE, e |-> <<>>]
SomeEntry(e) == [some |-> TRUE, e |-> e]

\* activity_data.get(PetActivity, {}).get(category, [])
CategoryList(payload, category) ==
    IF payload.pa = "dict" /\ payload.cats[category].st = "list"
    THEN payload.cats[category].l
    ELSE <<>>

\* key=lambda x: x.get("GlucoseEntryDateTime", "")
GlucoseSortKey(x) == DictGet(x, DATA_GLUCOSE_ENTRY_DATETIME, StrV(EmptyStr)).s

\* AlphaTrakApi.get_latest_glucose_reading, from the outcome of its fetch
get_latest_glucose_reading(fetched) ==
    LET activity_data == fetched.val
        readings == CategoryList(activity_data, RESPONSE_BLOOD_GLUCOSE)
        sorted_readings ==
            sorted_reverse(readings, [i \in 1..Len(readings) |-> GlucoseSortKey(readings[i])])
    IN  IF fetched.exc # "none" THEN Raise(fetched.exc, NoEntry)
        ELSE IF IsNone(activity_data) THEN Return(NoEntry)
        ELSE IF activity_data.pa = "null" THEN Raise("AttributeError", NoEntry)
        ELSE IF readings = <<>> THEN Return(NoEntry)
        ELSE Return(SomeEntry(WithRange(sorted_readings[1], activity_data.min, activity_data.max)))

\* get_glucose_readings that sorts the readings, newest first
get_glucose_readings_sorted(fetched) ==
    LET activity_data == fetched.val
        readings == CategoryList(activity_data, RESPONSE_BLOOD_GLUCOSE)
        sorted_readings ==
            sorted_reverse(readings,
                           [i \in 1..Len(readings) |-> _extract_entry_datetime(readings[i])])
    IN  IF fetched.exc # "none" THEN Raise(fetched.exc, <<>>)
        ELSE IF IsNone(activity_data) THEN Return(<<>>)
        ELSE IF activity_data.pa = "null" THEN Raise("AttributeError", <<>>)
        ELSE Return([i \in 1..Len(readings) |->
                        WithRange(sorted_readings[i], activity_data.min, activity_data.max)])

\* AlphaTrakApi.get_glucose_readings, from the outcome of its fetch
get_glucose_readings(fetched) ==
    LET activity_data == fetched.val
        readings == CategoryList(activity_data, RESPONSE_BLOOD_GLUCOSE)
    IN  IF fetched.exc # "none" THEN Raise(fetched.exc, <<>>)
        ELSE IF IsNone(activity_data) THEN Return(<<>>)
        ELSE IF activity_data.pa = "null" THEN Raise("AttributeError", <<>>)
        ELSE Return([i \in 1..Len(readings) |->
                        WithRange(readings[i], activity_data.min, activity_data.max)])

\* the empty dict {} of category lists
NoActivities == [c \in Categories |-> CatMissing]

\* AlphaTrakApi.get_recent_activities, from the outcome of its fetch
get_recent_activities(fetched) ==
    LET activity_data == fetched.val
        annotated(c) ==
            IF c = RESPONSE_BLOOD_GLUCOSE /\ activity_data.cats[c].st = "list"
            THEN CatList([i \in 1..Len(activity_data.cats[c].l) |->
                            WithRange(activity_data.cats[c].l[i],
                                      activity_data.min, activity_data.max)])
            ELSE activity_data.cats[c]
    IN  IF fetched.exc # "none" THEN Raise(fetched.exc, NoActivities)
        ELSE IF IsNone(activity_data) THEN Return(NoActivities)
        ELSE IF activity_data.pa = "null" THEN Raise("AttributeError", NoActivities)
        ELSE IF activity_data.pa = "missing" THEN Return(NoActivities)
        ELSE Return([c \in Categories |-> annotated(c)])

\* One value of the dict get_latest_activities returns: no such key, None, or
\* the latest entry.
LatestAbsent == [st |-> "absent", e |-> <<>>]
LatestNone == [st |-> "none", e |-> <<>>]
LatestIs(e) == [st |-> "entry", e |-> e]
NoLatest == [c \in Categories |-> LatestAbsent]

\* sorted(entries, key=lambda e: self._extract_entry_datetime(e), reverse=True)
SortedByDatetime(entries) ==
    sorted_reverse(entries, [i \in 1..Len(entries) |-> _extract_entry_datetime(entries[i])])

\* the body of the loop of get_latest_activities for one activity type
LatestOfCategory(activity_data, activity_type) ==
    LET entries == activity_data.cats[activity_type].l
        sorted_entries == SortedByDatetime(entries)
    IN  IF activity_data.cats[activity_type].st = "missing" THEN LatestAbsent
        ELSE IF entries = <<>> THEN LatestNone
        ELSE IF activity_type = RESPONSE_BLOOD_GLUCOSE
        THEN LatestIs(WithRange(sorted_entries[1], activity_data.min, activity_data.max))
        ELSE LatestIs(sorted_entries[1])

\* get_latest_activities with activity_data[RESPONSE_PET_ACTIVITY] in place of
\* activity_data.get(RESPONSE_PET_ACTIVITY, {})
get_latest_activities_indexes(fetched) ==
    LET activity_data == fetched.val
    IN  IF fetched.exc # "none" THEN Raise(fetched.exc, NoLatest)
        ELSE IF IsNone(activity_data) THEN Return(NoLatest)
        ELSE IF activity_data.pa = "null" THEN Raise("AttributeError", NoLatest)
        ELSE IF activity_data.pa = "missing" THEN Raise("KeyError", NoLatest)
        ELSE Return([c \in Categories |-> LatestOfCategory(activity_data, c)])

\* AlphaTrakApi.get_latest_activities, from the outcome of its fetch
get_latest_activities(fetched) ==
    LET activity_data == fetched.val
    IN  IF fetched.exc # "none" THEN Raise(fetched.exc, NoLatest)
        ELSE IF IsNone(activity_data) THEN Return(NoLatest)
        ELSE IF activity_data.pa = "null" THEN Raise("AttributeError", NoLatest)
        ELSE IF activity_data.pa = "missing" THEN Return(NoLatest)
        ELSE Return([c \in Categories |-> LatestOfCategory(activity_data, c)])

(***************************************************************************)
(* API client (api.py): requests and the interpretation of responses.      *)
(***************************************************************************)
\* "Authorization": f"bearer {self._token}"
AuthorizationHeader(tok) == <<"bearer", tok>>

\* The request get_pet_activity posts: its headers are built from the token
\* the client holds when the call starts, before the first await.
PetActivityRequest(tok, pet, days) ==
    [active |-> TRUE, auth |-> AuthorizationHeader(tok), PetId |-> pet, days |-> days]
NoRequest == [active |-> FALSE, auth |-> <<"", NoToken>>, PetId |-> 0, days |-> 0]

\* What the network gives back to one request.
\*   net: "ok" (a response arrived), "timeout" (asyncio.timeout expired),
\*        "client_error" (aiohttp.ClientError), "cancelled" (the task was cancelled)
\*   body: "json" (a JSON object), "invalid_json" (json.JSONDecodeError),
\*         "content_type" (aiohttp.ContentTypeError, a ClientError),
\*         "not_dict" (JSON, but no object)
\*   is_success: the IsSuccess key; data: the ResponseData key
\*   text_ok: whether response.text() can be read
Statuses == {HTTP_OK, HTTP_UNAUTHORIZED, HTTP_NOT_FOUND}
Bodies == {"json", "invalid_json", "content_type", "not_dict"}
SuccessFlags == {"true", "false", "missing"}

HttpResponse(status, body, flag, data, text_ok) ==
    [net |-> "ok", status |-> status, body |-> body, is_success |-> flag,
     data |-> data, text_ok |-> text_ok]
NetFailure(kind) ==
    [net |-> kind, status |-> 0, body |-> "json", is_success |-> "missing",
     data |-> NonePayload, text_ok |-> TRUE]

\* response_data.get(RESPONSE_DATA)
ResponseData(resp) == IF IsNone(resp.data) THEN NonePayload ELSE resp.data

\* get_pet_activity with the data check moved in front of the 401 check
get_pet_activity_data_first(resp) ==
    IF resp.net \in {"timeout", "client_error"} THEN Raise("AlphaTrakConnectionError", NonePayload)
    ELSE IF resp.net = "cancelled" THEN Raise("CancelledError", NonePayload)
    ELSE IF resp.body = "json" /\ ~IsNone(resp.data) THEN Return(ResponseData(resp))
    ELSE IF resp.status = HTTP_UNAUTHORIZED THEN Raise("AlphaTrakAuthError", NonePayload)
    ELSE Raise("AlphaTrakApiError", NonePayload)

\* get_pet_activity that takes every status but 200 for a failure
get_pet_activity_strict_status(resp) ==
    IF resp.net \in {"timeout", "client_error"} THEN Raise("AlphaTrakConnectionError", NonePayload)
    ELSE IF resp.net = "cancelled" THEN Raise("CancelledError", NonePayload)
    ELSE IF resp.status = HTTP_UNAUTHORIZED THEN Raise("AlphaTrakAuthError", NonePayload)
    ELSE IF resp.body # "json" \/ resp.status # HTTP_OK THEN Raise("AlphaTrakApiError", NonePayload)
    ELSE IF resp.is_success # "true" /\ IsNone(resp.data) THEN Raise("AlphaTrakApiError", NonePayload)
    ELSE Return(ResponseData(resp))

\* get_pet_activity that returns ResponseData of a 200 response whatever the flag
get_pet_activity_ignores_flag(resp) ==
    IF resp.net \in {"timeout", "client_error"} THEN Raise("AlphaTrakConnectionError", NonePayload)
    ELSE IF resp.net = "cancelled" THEN Raise("CancelledError", NonePayload)
    ELSE IF resp.status = HTTP_UNAUTHORIZED THEN Raise("AlphaTrakAuthError", NonePayload)
    ELSE IF resp.body # "json" THEN Raise("AlphaTrakApiError", NonePayload)
    ELSE IF resp.status # HTTP_OK /\ IsNone(resp.data) THEN Raise("AlphaTrakApiError", NonePayload)
    ELSE Return(ResponseData(resp))

\* AlphaTrakApi.get_pet_activity from the response on: what it returns or raises
get_pet_activity(resp) ==
    IF resp.net = "timeout" THEN Raise("AlphaTrakConnectionError", NonePayload)
    ELSE IF resp.net = "client_error" THEN Raise("AlphaTrakConnectionError", NonePayload)
    ELSE IF resp.net = "cancelled" THEN Raise("CancelledError", NonePayload)
    ELSE IF resp.status = HTTP_UNAUTHORIZED THEN Raise("AlphaTrakAuthError", NonePayload)
    ELSE IF resp.body = "invalid_json" THEN Raise("AlphaTrakApiError", NonePayload)
    ELSE IF resp.body = "content_type" THEN Raise("AlphaTrakConnectionError", NonePayload)
    ELSE IF resp.body = "not_dict" THEN Raise("AttributeError", NonePayload)
    ELSE IF resp.status # HTTP_OK
    THEN IF ~IsNone(resp.data) THEN Return(ResponseData(resp))
         ELSE Raise("AlphaTrakApiError", NonePayload)
    ELSE IF resp.is_success # "true"
    THEN IF ~IsNone(resp.data) THEN Return(ResponseData(resp))
         ELSE Raise("AlphaTrakApiError", NonePayload)
    ELSE Return(ResponseData(resp))

\* a validation without the except clause for AlphaTrakAuthError
validate_connection_lets_auth_out(fetched) ==
    IF fetched.exc \in {"AlphaTrakApiError", "AlphaTrakConnectionError"} THEN Return(FALSE)
    ELSE IF fetched.exc # "none" THEN Raise(fetched.exc, FALSE)
    ELSE Return(~IsNone(fetched.val))

\* a validation that returns True for whatever its fetch returned
validate_connection_any(fetched) ==
    IF fetched.exc = "AlphaTrakAuthError" THEN Return(FALSE)
    ELSE IF fetched.exc \in {"AlphaTrakApiError", "AlphaTrakConnectionError"} THEN Return(FALSE)
    ELSE IF fetched.exc # "none" THEN Raise(fetched.exc, FALSE)
    ELSE Return(TRUE)

\* AlphaTrakApi.validate_connection from the outcome of its fetch
validate_connection(fetched) ==
    IF fetched.exc = "AlphaTrakAuthError" THEN Return(FALSE)
    ELSE IF fetched.exc \in {"AlphaTrakApiError", "AlphaTrakConnectionError"} THEN Return(FALSE)
    ELSE IF fetched.exc # "none" THEN Raise(fetched.exc, FALSE)
    ELSE Return(~IsNone(fetched.val))

\* The login response: access_token is the token of AuthToken (NoToken when
\* ResponseData, AuthToken or access_token is missing or empty); id is "num"
\* (Id converts to int), "bad" (it does not) or "missing".
LoginResponse(status, body, flag, access_token, id) ==
    [net |-> "ok", status |-> status, body |-> body, is_success |-> flag,
     access_token |-> access_token, id |-> id]
LoginNetFailure(kind) ==
    [net |-> kind, status |-> 0, body |-> "json", is_success |-> "missing",
     access_token |-> NoToken, id |-> "missing"]

\* user ids: UserOf(tok) is the account id the service returns with token tok
NoUser == 0
NoPet == 0
UserOf(tok) == 100 + tok

\* a login without the check for status 401
login_no_401_check(session, resp) ==
    LET raise(exc) == [exc |-> exc, session |-> session]
    IN  IF resp.net \in {"timeout", "client_error"} THEN raise("AlphaTrakConnectionError")
        ELSE IF resp.net = "cancelled" THEN raise("CancelledError")
        ELSE IF resp.status # HTTP_OK THEN raise("AlphaTrakApiError")
        ELSE IF resp.body = "invalid_json" THEN raise("AlphaTrakApiError")
        ELSE IF resp.body = "content_type" THEN raise("AlphaTrakConnectionError")
        ELSE IF resp.body = "not_dict" THEN raise("AttributeError")
        ELSE IF resp.is_success # "true" THEN raise("AlphaTrakApiError")
        ELSE IF resp.access_token # NoToken
        THEN [exc |-> "none",
              session |-> [token |-> resp.access_token,
                           user_id |-> IF resp.id = "num"
                                       THEN UserOf(resp.access_token) ELSE NoUser]]
        ELSE [exc |-> "none", session |-> session]

\* a login that keeps the user id it has when the response has no usable Id
login_keeps_user(session, resp) ==
    LET raise(exc) == [exc |-> exc, session |-> session]
    IN  IF resp.net \in {"timeout", "client_error"} THEN raise("AlphaTrakConnectionError")
        ELSE IF resp.net = "cancelled" THEN raise("CancelledError")
        ELSE IF resp.status = HTTP_UNAUTHORIZED THEN raise("AlphaTrakAuthError")
        ELSE IF resp.status # HTTP_OK THEN raise("AlphaTrakApiError")
        ELSE IF resp.body = "invalid_json" THEN raise("AlphaTrakApiError")
        ELSE IF resp.body = "content_type" THEN raise("AlphaTrakConnectionError")
        ELSE IF resp.body = "not_dict" THEN raise("AttributeError")
        ELSE IF resp.is_success # "true" THEN raise("AlphaTrakApiError")
        ELSE IF resp.access_token # NoToken
        THEN [exc |-> "none",
              session |-> [token |-> resp.access_token,
                           user_id |-> IF resp.id = "num"
                                       THEN UserOf(resp.access_token) ELSE session.user_id]]
        ELSE [exc |-> "none", session |-> session]

\* a login that clears the user id when the response has no access token
login_clears_without_token(session, resp) ==
    LET raise(exc) == [exc |-> exc, session |-> session]
    IN  IF resp.net \in {"timeout", "client_error"} THEN raise("AlphaTrakConnectionError")
        ELSE IF resp.net = "cancelled" THEN raise("CancelledError")
        ELSE IF resp.status = HTTP_UNAUTHORIZED THEN raise("AlphaTrakAuthError")
        ELSE IF resp.status # HTTP_OK THEN raise("AlphaTrakApiError")
        ELSE IF resp.body = "invalid_json" THEN raise("AlphaTrakApiError")
        ELSE IF resp.body = "content_type" THEN raise("AlphaTrakConnectionError")
        ELSE IF resp.body = "not_dict" THEN raise("AttributeError")
        ELSE IF resp.is_success # "true" THEN raise("AlphaTrakApiError")
        ELSE [exc |-> "none",
              session |-> [token |-> IF resp.access_token # NoToken
                                     THEN resp.access_token ELSE session.token,
                           user_id |-> IF resp.access_token # NoToken /\ resp.id = "num"
                                       THEN UserOf(resp.access_token) ELSE NoUser]]

\* a login that stores the token before it looks at IsSuccess
login_stores_early(session, resp) ==
    LET stored == IF resp.access_token # NoToken
                  THEN [session EXCEPT !.token = resp.access_token]
                  ELSE session
        raise(exc) == [exc |-> exc, session |-> session]
    IN  IF resp.net \in {"timeout", "client_error"} THEN raise("AlphaTrakConnectionError")
        ELSE IF resp.net = "cancelled" THEN raise("CancelledError")
        ELSE IF resp.status = HTTP_UNAUTHORIZED THEN raise("AlphaTrakAuthError")
        ELSE IF resp.status # HTTP_OK THEN raise("AlphaTrakApiError")
        ELSE IF resp.body = "invalid_json" THEN raise("AlphaTrakApiError")
        ELSE IF resp.body = "content_type" THEN raise("AlphaTrakConnectionError")
        ELSE IF resp.body = "not_dict" THEN raise("AttributeError")
        ELSE IF resp.is_success # "true"
        THEN [exc |-> "AlphaTrakApiError", session |-> stored]
        ELSE IF resp.access_token # NoToken
        THEN [exc |-> "none",
              session |-> [token |-> resp.access_token,
                           user_id |-> IF resp.id = "num"
                                       THEN UserOf(resp.access_token) ELSE NoUser]]
        ELSE [exc |-> "none", session |-> session]

\* AlphaTrakApi.login from the response on: what it raises ("none": it returns
\* resp) and the session (token, user id) of the client afterwards
login(session, resp) ==
    LET raise(exc) == [exc |-> exc, session |-> session]
    IN  IF resp.net \in {"timeout", "client_error"} THEN raise("AlphaTrakConnectionError")
        ELSE IF resp.net = "cancelled" THEN raise("CancelledError")
        ELSE IF resp.status = HTTP_UNAUTHORIZED THEN raise("AlphaTrakAuthError")
        ELSE IF resp.status # HTTP_OK THEN raise("AlphaTrakApiError")
        ELSE IF resp.body = "invalid_json" THEN raise("AlphaTrakApiError")
        ELSE IF resp.body = "content_type" THEN raise("AlphaTrakConnectionError")
        ELSE IF resp.body = "not_dict" THEN raise("AttributeError")
        ELSE IF resp.is_success # "true" THEN raise("AlphaTrakApiError")
        ELSE IF resp.access_token # NoToken
        THEN [exc |-> "none",
              session |-> [token |-> resp.access_token,
                           user_id |-> IF resp.id = "num"
                                       THEN UserOf(resp.access_token) ELSE NoUser]]
        ELSE [exc |-> "none", session |-> session]

\* a set_token that starts a new session: it forgets the user id
set_token_resets_user(session, tok) == [token |-> tok, user_id |-> NoUser]

\* a set_token that keeps the token it has
set_token_keeps(session, tok) == session

\* AlphaTrakApi.set_token
set_token(session, tok) == [session EXCEPT !.token = tok]

\* a guard of get_pets that looks at the user id first
get_pets_guard_user_first(session) ==
    IF session.user_id = NoUser THEN "AlphaTrakApiError"
    ELSE IF session.token = NoToken THEN "AlphaTrakAuthError"
    ELSE "none"

\* AlphaTrakApi.get_pets before its request: what it raises without sending
\* one ("none": it sends the request)
get_pets_guard(session) ==
    IF session.token = NoToken THEN "AlphaTrakAuthError"
    ELSE IF session.user_id = NoUser THEN "AlphaTrakApiError"
    ELSE "none"

\* the GET request of get_pets
PetsRequest(session) ==
    [active |-> TRUE, auth |-> AuthorizationHeader(session.token), userId |-> session.user_id]

\* The answer to a get_pets request: pets is what ResponseData holds, a list
\* of pet ids ("list"), null, nothing ("missing") or something else.
PetsResponse(status, body, flag, pets) ==
    [net |-> "ok", status |-> status, body |-> body, is_success |-> flag, pets |-> pets]
PetsNetFailure(kind) ==
    [net |-> kind, status |-> 0, body |-> "json", is_success |-> "missing",
     pets |-> [st |-> "missing", l |-> <<>>]]

\* AlphaTrakApi.get_pets from the response on
get_pets(resp) ==
    IF resp.net = "timeout" THEN Raise("AlphaTrakConnectionError", <<>>)
    ELSE IF resp.net = "client_error" THEN Raise("AlphaTrakConnectionError", <<>>)
    ELSE IF resp.net = "cancelled" THEN Raise("CancelledError", <<>>)
    ELSE IF resp.status # HTTP_OK THEN Raise("AlphaTrakApiError", <<>>)
    ELSE IF resp.body = "invalid_json" THEN Raise("AlphaTrakApiError", <<>>)
    ELSE IF resp.body = "content_type" THEN Raise("AlphaTrakConnectionError", <<>>)
    ELSE IF resp.body = "not_dict" THEN Raise("AttributeError", <<>>)
    ELSE IF resp.is_success # "true" THEN Raise("AlphaTrakApiError", <<>>)
    ELSE IF resp.pets.st = "list" THEN Return(resp.pets.l)
    ELSE Return(<<>>)

(***************************************************************************)
(* Poll cycle (coordinator.py).                                            *)
(***************************************************************************)
\* except clauses that end in one for every other exception
MapException_catch_all(exc) ==
    IF exc = "AlphaTrakAuthError" THEN "ConfigEntryAuthFailed" ELSE "UpdateFailed"

\* except clauses in which the one for AlphaTrakApiError comes first and
\* catches its subclasses
MapException_api_first(exc) ==
    IF exc \in {"AlphaTrakApiError", "AlphaTrakAuthError", "AlphaTrakConnectionError"}
    THEN "UpdateFailed"
    ELSE exc

\* the except clauses of _async_update_data: what the cycle raises for an
\* exception raised inside its try block
MapException(exc) ==
    IF exc = "AlphaTrakAuthError" THEN "ConfigEntryAuthFailed"
    ELSE IF exc = "AlphaTrakConnectionError" THEN "UpdateFailed"
    ELSE IF exc = "AlphaTrakApiError" THEN "UpdateFailed"
    ELSE exc

\* a cycle that goes on without a latest reading
AfterLatestReading_no_check(latest) ==
    IF latest.exc # "none" THEN MapException(latest.exc) ELSE "none"

\* _async_update_data after get_latest_glucose_reading: "none" when the cycle
\* goes on to fetch the readings, else what it raises
AfterLatestReading(latest) ==
    IF latest.exc # "none" THEN MapException(latest.exc)
    ELSE IF ~latest.val.some THEN "UpdateFailed"
    ELSE "none"

\* the dict _async_update_data returns
Snapshot(latest_reading, readings, pet) ==
    [latest_reading |-> latest_reading, recent_readings |-> readings, pet_id |-> pet]

\* What a payload holds of BloodGlucose: "none" (no payload), "no_activity",
\* "null_activity", "no_glucose", "empty" (an empty list) or "readings".
GlucoseOf(payload) ==
    IF IsNone(payload) THEN "none"
    ELSE IF payload.pa = "missing" THEN "no_activity"
    ELSE IF payload.pa = "null" THEN "null_activity"
    ELSE IF payload.cats[RESPONSE_BLOOD_GLUCOSE].st = "missing" THEN "no_glucose"
    ELSE IF payload.cats[RESPONSE_BLOOD_GLUCOSE].l = <<>> THEN "empty"
    ELSE "readings"

\* whether another category of the payload carries entries
HasOtherEntries(payload) ==
    /\ ~IsNone(payload)
    /\ payload.pa = "dict"
    /\ payload.cats[RESPONSE_INSULIN].l # <<>>

\* The history entry of one get_pet_activity call: what it raised, what its
\* payload holds, the BloodGlucose list in the order the server sent it, and
\* whether the host cancelled the call while its request was in flight.
Fetched(out, resp) ==
    [exc |-> out.exc, glucose |-> GlucoseOf(out.val), others |-> HasOtherEntries(out.val),
     bg |-> CategoryList(out.val, RESPONSE_BLOOD_GLUCOSE),
     cancelled |-> resp.net = "cancelled"]

\* The state the host shows for what a cycle raised.
StateOf(raised) ==
    IF raised = "none" THEN "Ready"
    ELSE IF raised = "ConfigEntryAuthFailed" THEN "AuthRequired"
    ELSE IF raised = "CancelledError" THEN "Idle"
    ELSE "Failed"

(***************************************************************************)
(* What the server can answer.                                             *)
(***************************************************************************)
\* The server holds the pet's BloodGlucose readings of the last week, in the
\* order it returns them, its Insulin entries and the glucose range.
Server(bg, ins, lo, hi) == [bg |-> bg, ins |-> ins, min |-> lo, max |-> hi]

\* The ResponseData a server sends, by shape:
\*   "full"          PetActivity with the BloodGlucose list and Insulin
\*   "empty"         PetActivity with an empty BloodGlucose list and Insulin
\*   "no_glucose"    PetActivity without a BloodGlucose key
\*   "no_activity"   no PetActivity key
\*   "null_activity" PetActivity is null
\*   "null"          ResponseData is null
\*   "missing"       no ResponseData key
Shapes == {"full", "empty", "no_glucose", "no_activity", "null_activity", "null", "missing"}

PayloadOf(srv, shape) ==
    IF shape = "full"
    THEN MkPayload("dict", CatList(srv.bg), srv.ins, srv.min, srv.max)
    ELSE IF shape = "empty"
    THEN MkPayload("dict", CatList(<<>>), srv.ins, srv.min, srv.max)
    ELSE IF shape = "no_glucose"
    THEN MkPayload("dict", CatMissing, srv.ins, srv.min, srv.max)
    ELSE IF shape = "no_activity"
    THEN MkPayload("missing", CatMissing, CatMissing, srv.min, srv.max)
    ELSE IF shape = "null_activity"
    THEN MkPayload("null", CatMissing, CatMissing, srv.min, srv.max)
    ELSE IF shape = "null" THEN NonePayload
    ELSE MissingPayload

\* Every answer to a get_pet_activity request.  A body that does not parse
\* carries no flag and no data.
PetActivityResponses(srv) ==
    {NetFailure(k) : k \in {"timeout", "client_error", "cancelled"}}
    \cup {HttpResponse(st, "json", f, PayloadOf(srv, shape), TRUE) :
            st \in Statuses, f \in SuccessFlags, shape \in Shapes}
    \cup {HttpResponse(st, b, "missing", NonePayload, t) :
            st \in Statuses, b \in Bodies \ {"json"}, t \in BOOLEAN}
    \cup {HttpResponse(st, "json", f, NonePayload, FALSE) :
            st \in Statuses, f \in SuccessFlags}

Tokens == 1..MaxToken

\* Every answer to a login request.
LoginResponses ==
    {LoginNetFailure(k) : k \in {"timeout", "client_error", "cancelled"}}
    \cup {LoginResponse(st, "json", f, t, id) :
            st \in Statuses, f \in SuccessFlags, t \in Tokens \cup {NoToken},
            id \in {"num", "bad", "missing"}}
    \cup {LoginResponse(st, b, "missing", NoToken, "missing") :
            st \in Statuses, b \in Bodies \ {"json"}}

\* The answers to the login of the reauth step, which reads the token of its
\* client and nothing else of the session: those with no Id or a bad one are
\* left out.
ReauthLoginResponses ==
    {r \in LoginResponses :
        r.id = "num" \/ (r.access_token = NoToken /\ r.id = "missing")}

\* the user of the entry is alice; bob reauthenticates
Usernames == {"bob"}
PetIds == {7}

(***************************************************************************)
(* State.                                                                  *)
(***************************************************************************)
VARIABLES
    server,             \* what the remote service holds for the pet
    entry,              \* the config entry's data: token, username, pet_id
    spc,                \* async_setup_entry: "unloaded", "validating", "first_refresh", "loaded"
    setup_raised,       \* what the last async_setup_entry raised ("none": it returned True)
    validated,          \* history: what the fetch of the last validate_connection raised,
                        \* or "null" / "payload" for what it returned
    session,            \* the live client's _token and _user_id
    pet_id,             \* the live client's _pet_id
    request,            \* the live client's request in flight
    cpc,                \* the poll cycle: "idle", "latest" (first fetch), "readings" (second)
    cstate,             \* Idle, Fetching, Ready, AuthRequired, Failed
    raised,             \* what the last _async_update_data raised ("none": it returned)
    latest_reading,     \* the cycle's local latest_reading
    data,               \* coordinator.data: <<>> (None) or <<snapshot>>
    fetched,            \* history: what each get_pet_activity call of the current
                        \* (or last) cycle returned or raised, in order
    refresh_requested,  \* async_request_refresh was called and has not run yet
    rpc,                \* the reauth step: "none", "form", "login", "logged_in",
                        \* "entry_updated", "token_set", "refresh_requested", "done"
    tmp,                \* the session of the reauth step's own client
    username,           \* user_input[CONF_USERNAME] of the reauth step
    errors,             \* errors["base"] of the reauth form
    flow_result,        \* how the last reauth flow ended
    logged,             \* history: what the last login of the reauth step raised, and
                        \* the access token of its response when it raised nothing
    probe               \* one call of a function on its own: its input and outcome

vars == <<server, entry, spc, setup_raised, validated, session, pet_id, request, cpc, cstate, raised,
          latest_reading, data, fetched, refresh_requested, rpc, tmp, username,
          errors, flow_result, logged, probe>>

setup_vars == <<spc, setup_raised, validated>>
client_vars == <<session, pet_id>>
cycle_vars == <<request, cpc, cstate, raised, latest_reading, data, fetched>>
reauth_vars == <<rpc, tmp, username, errors, flow_result, logged>>

NoSession == [token |-> NoToken, user_id |-> NoUser]

\* AlphaTrakApi.__init__(hass, token, pet_id)
NewClient(tok) == [token |-> tok, user_id |-> NoUser]

\* the server of the whole-system specification: the two readings of the
\* end-to-end scenario, the older one first
ScenarioServers ==
    {Server(<<E_JAN01, E_JAN02>>, CatList(<<I_JAN01>>), NumV(70), NumV(180))}

\* what the scenario's server holds once the pet's owner has deleted the
\* readings
ChangedServers(srv) == {[srv EXCEPT !.bg = <<>>]}

\* no function is called on its own
ProbeOff == [pc |-> "off"]

\* no login of a reauth step so far
NotLogged == [exc |-> "none", token |-> NoToken]

\* A config entry, the client async_setup_entry builds from it, and the
\* server srv.
InitWith(srv) ==
    /\ server = srv
    /\ entry \in [token : {1}, username : {"alice"}, pet_id : PetIds]
    /\ spc = "unloaded"
    /\ setup_raised = "none"
    /\ validated = "none"
    /\ session = NewClient(entry.token)
    /\ pet_id = entry.pet_id
    /\ request = NoRequest
    /\ cpc = "idle"
    /\ cstate = "Idle"
    /\ raised = "none"
    /\ latest_reading = <<>>
    /\ data = <<>>
    /\ fetched = <<>>
    /\ refresh_requested = FALSE
    /\ rpc = "none"
    /\ tmp = NewClient(NoToken)
    /\ username = ""
    /\ errors = ""
    /\ flow_result = ""
    /\ logged = NotLogged

Init ==
    /\ \E srv \in ScenarioServers : InitWith(srv)
    /\ probe = ProbeOff

\* The reauth step runs from the login's return to its next await without
\* yielding to the event loop: nothing else runs in between.
ReauthRunning == rpc \in {"logged_in", "entry_updated", "token_set", "done"}

(***************************************************************************)
(* Entry setup (__init__.py).                                              *)
(***************************************************************************)
\* async_setup_entry up to the await of validate_connection's fetch
SetupEntry ==
    /\ spc = "unloaded"
    /\ ~ReauthRunning
    /\ session' = NewClient(entry.token)
    /\ pet_id' = entry.pet_id
    /\ request' = PetActivityRequest(entry.token, entry.pet_id, VALIDATE_WINDOW_DAYS)
    /\ spc' = "validating"
    /\ setup_raised' = "none"
    /\ validated' = "none"
    /\ cstate' = "Idle"
    /\ raised' = "none"
    /\ data' = <<>>
    /\ fetched' = <<>>
    /\ UNCHANGED <<server, entry, cpc, latest_reading, refresh_requested, probe>>
    /\ UNCHANGED reauth_vars

\* what the fetch of validate_connection came to: the exception it raised,
\* "null" for a None and "payload" for anything else it returned
ValidationOutcome(fetch) ==
    IF fetch.exc # "none" THEN fetch.exc
    ELSE IF IsNone(fetch.val) THEN "null"
    ELSE "payload"

\* what async_setup_entry raises for the outcome of validate_connection
SetupRaises(valid) ==
    IF valid.exc # "none" THEN valid.exc
    ELSE IF ~valid.val THEN "ConfigEntryNotReady"
    ELSE "none"

\* The validation fetch answers: setup fails, or creates the coordinator
\* and starts its first refresh.
ValidateResponse(resp) ==
    /\ spc = "validating"
    /\ request.active
    /\ ~ReauthRunning
    /\ validated' = ValidationOutcome(get_pet_activity(resp))
    /\ LET valid == validate_connection(get_pet_activity(resp))
       IN  IF SetupRaises(valid) = "none"
           THEN /\ spc' = "first_refresh"
                /\ UNCHANGED setup_raised
                /\ cpc' = "latest"
                /\ cstate' = "Fetching"
                /\ raised' = "none"
                /\ latest_reading' = <<>>
                /\ data' = <<>>
                /\ fetched' = <<>>
                /\ request' = PetActivityRequest(session.token, pet_id, POLL_WINDOW_DAYS)
           ELSE /\ spc' = "unloaded"
                /\ setup_raised' = SetupRaises(valid)
                /\ request' = NoRequest
                /\ UNCHANGED <<cpc, cstate, raised, latest_reading, data, fetched>>
    /\ UNCHANGED <<server, entry, refresh_requested, probe>>
    /\ UNCHANGED client_vars
    /\ UNCHANGED reauth_vars

(***************************************************************************)
(* Poll cycle (coordinator.py), driven by the host.                        *)
(***************************************************************************)
\* A scheduled tick (none while reauthentication is awaited), a refresh an
\* entity update asks for ("manual") or the refresh the reauth step requested
\* starts a cycle: _async_update_data up to the await of the first fetch.
Tick(kind) ==
    /\ spc = "loaded"
    /\ cpc = "idle"
    /\ ~ReauthRunning
    /\ \/ kind = "scheduled" /\ cstate # "AuthRequired" /\ UNCHANGED refresh_requested
       \/ kind = "manual" /\ UNCHANGED refresh_requested
       \/ kind = "requested" /\ refresh_requested /\ refresh_requested' = FALSE
    /\ cpc' = "latest"
    /\ cstate' = "Fetching"
    /\ fetched' = <<>>
    /\ request' = PetActivityRequest(session.token, pet_id, POLL_WINDOW_DAYS)
    /\ UNCHANGED <<server, entry, raised, latest_reading, data, probe>>
    /\ UNCHANGED setup_vars
    /\ UNCHANGED client_vars
    /\ UNCHANGED reauth_vars

\* what async_config_entry_first_refresh makes of what the first cycle raised
FirstRefreshRaises(r) == IF r = "UpdateFailed" THEN "ConfigEntryNotReady" ELSE r

\* a cycle that drops the token of its client when it ends in
\* ConfigEntryAuthFailed
EndCycle_drops_token(resp, r, new_data) ==
    /\ fetched' = Append(fetched, Fetched(get_pet_activity(resp), resp))
    /\ raised' = r
    /\ cstate' = StateOf(r)
    /\ cpc' = "idle"
    /\ request' = NoRequest
    /\ latest_reading' = <<>>
    /\ data' = new_data
    /\ IF spc = "first_refresh"
       THEN /\ spc' = IF r = "none" THEN "loaded" ELSE "unloaded"
            /\ setup_raised' = FirstRefreshRaises(r)
            /\ UNCHANGED validated
       ELSE UNCHANGED setup_vars
    /\ IF r = "ConfigEntryAuthFailed" /\ rpc = "none"
       THEN rpc' = "form" /\ errors' = "" /\ flow_result' = ""
            /\ UNCHANGED <<tmp, username, logged>>
       ELSE UNCHANGED reauth_vars
    /\ session' = IF r = "ConfigEntryAuthFailed"
                  THEN [session EXCEPT !.token = NoToken]
                  ELSE session
    /\ UNCHANGED <<server, entry, refresh_requested, probe, pet_id>>

\* A cycle ends raising r ("none": it returned new_data).  The first refresh
\* decides the setup; a ConfigEntryAuthFailed starts the reauth flow.
EndCycle(resp, r, new_data) ==
    /\ fetched' = Append(fetched, Fetched(get_pet_activity(resp), resp))
    /\ raised' = r
    /\ cstate' = StateOf(r)
    /\ cpc' = "idle"
    /\ request' = NoRequest
    /\ latest_reading' = <<>>
    /\ data' = new_data
    /\ IF spc = "first_refresh"
       THEN /\ spc' = IF r = "none" THEN "loaded" ELSE "unloaded"
            /\ setup_raised' = FirstRefreshRaises(r)
            /\ UNCHANGED validated
       ELSE UNCHANGED setup_vars
    /\ IF r = "ConfigEntryAuthFailed" /\ rpc = "none"
       THEN rpc' = "form" /\ errors' = "" /\ flow_result' = ""
            /\ UNCHANGED <<tmp, username, logged>>
       ELSE UNCHANGED reauth_vars
    /\ UNCHANGED <<server, entry, refresh_requested, probe>>
    /\ UNCHANGED client_vars

\* a first fetch that is issued once more when it failed to connect
LatestResponse_retries(resp) ==
    /\ cpc = "latest"
    /\ request.active
    /\ ~ReauthRunning
    /\ LET out == get_pet_activity(resp)
           latest == get_latest_glucose_reading(out)
       IN  IF out.exc = "AlphaTrakConnectionError" /\ fetched = <<>>
           THEN /\ fetched' = Append(fetched, Fetched(out, resp))
                /\ request' = PetActivityRequest(session.token, pet_id, POLL_WINDOW_DAYS)
                /\ UNCHANGED <<server, entry, cpc, cstate, raised, latest_reading, data,
                               refresh_requested, probe>>
                /\ UNCHANGED setup_vars
                /\ UNCHANGED client_vars
                /\ UNCHANGED reauth_vars
           ELSE IF AfterLatestReading(latest) = "none"
           THEN /\ latest_reading' = latest.val.e
                /\ cpc' = "readings"
                /\ fetched' = Append(fetched, Fetched(out, resp))
                /\ request' = PetActivityRequest(session.token, pet_id, POLL_WINDOW_DAYS)
                /\ UNCHANGED <<server, entry, cstate, raised, data, refresh_requested, probe>>
                /\ UNCHANGED setup_vars
                /\ UNCHANGED client_vars
                /\ UNCHANGED reauth_vars
           ELSE EndCycle(resp, AfterLatestReading(latest), data)

\* The first fetch answers: _async_update_data from get_latest_glucose_reading's
\* return to the await of the second fetch, or to its raise.
LatestResponse(resp) ==
    /\ cpc = "latest"
    /\ request.active
    /\ ~ReauthRunning
    /\ LET out == get_pet_activity(resp)
           latest == get_latest_glucose_reading(out)
       IN  IF AfterLatestReading(latest) = "none"
           THEN /\ latest_reading' = latest.val.e
                /\ cpc' = "readings"
                /\ fetched' = Append(fetched, Fetched(out, resp))
                /\ request' = PetActivityRequest(session.token, pet_id, POLL_WINDOW_DAYS)
                /\ UNCHANGED <<server, entry, cstate, raised, data, refresh_requested, probe>>
                /\ UNCHANGED setup_vars
                /\ UNCHANGED client_vars
                /\ UNCHANGED reauth_vars
           ELSE EndCycle(resp, AfterLatestReading(latest), data)

\* The second fetch answers: _async_update_data to its return or raise.
ReadingsResponse(resp) ==
    /\ cpc = "readings"
    /\ request.active
    /\ ~ReauthRunning
    /\ LET out == get_pet_activity(resp)
           readings == get_glucose_readings(out)
       IN  IF readings.exc = "none"
           THEN EndCycle(resp, "none", <<Snapshot(latest_reading, readings.val, pet_id)>>)
           ELSE EndCycle(resp, MapException(readings.exc), data)

\* The data of the remote service changes between the two fetches of a cycle.
ServerChanges ==
    /\ cpc = "readings"
    /\ server \in ScenarioServers
    /\ server' \in ChangedServers(server)
    /\ UNCHANGED <<entry, refresh_requested, probe>>
    /\ UNCHANGED setup_vars
    /\ UNCHANGED client_vars
    /\ UNCHANGED cycle_vars
    /\ UNCHANGED reauth_vars

(***************************************************************************)
(* Reauthentication (config_flow.py, async_step_reauth).                   *)
(***************************************************************************)
\* The user submits the form: a client of the step's own posts the login.
ReauthSubmit(name) ==
    /\ rpc = "form"
    /\ rpc' = "login"
    /\ tmp' = NewClient(NoToken)
    /\ username' = name
    /\ errors' = ""
    /\ logged' = NotLogged
    /\ UNCHANGED <<flow_result, server, entry, refresh_requested, probe>>
    /\ UNCHANGED setup_vars
    /\ UNCHANGED client_vars
    /\ UNCHANGED cycle_vars

\* except clauses that take every error of the client for bad credentials
ReauthError_all_invalid_auth(exc) ==
    IF exc \in {"AlphaTrakAuthError", "AlphaTrakConnectionError", "AlphaTrakApiError"}
    THEN "invalid_auth"
    ELSE ""

\* errors["base"] for what login raised
ReauthError(exc) ==
    IF exc = "AlphaTrakAuthError" THEN "invalid_auth"
    ELSE IF exc = "AlphaTrakConnectionError" THEN "cannot_connect"
    ELSE IF exc = "AlphaTrakApiError" THEN "cannot_connect"
    ELSE ""

\* The login answers: the form is shown again with an error, the step dies
\* of an exception it does not handle, or it goes on.
ReauthLoginResponse(resp) ==
    /\ rpc = "login"
    /\ ~ReauthRunning
    /\ logged' = [exc |-> login(tmp, resp).exc,
                  token |-> IF login(tmp, resp).exc = "none" THEN resp.access_token
                            ELSE NoToken]
    /\ LET r == login(tmp, resp)
       IN  IF r.exc = "none"
           THEN /\ rpc' = "logged_in"
                /\ tmp' = r.session
                /\ UNCHANGED <<username, errors, flow_result>>
           ELSE IF ReauthError(r.exc) # ""
           THEN /\ rpc' = "form"
                /\ errors' = ReauthError(r.exc)
                /\ tmp' = NewClient(NoToken)
                /\ username' = ""
                /\ UNCHANGED flow_result
           ELSE /\ rpc' = "none"
                /\ flow_result' = r.exc
                /\ tmp' = NewClient(NoToken)
                /\ username' = ""
                /\ UNCHANGED errors
    /\ UNCHANGED <<server, entry, refresh_requested, probe>>
    /\ UNCHANGED setup_vars
    /\ UNCHANGED client_vars
    /\ UNCHANGED cycle_vars

\* an entry update that stores the username and leaves the token
ReauthUpdateEntry_keeps_token ==
    /\ rpc = "logged_in"
    /\ entry' = [entry EXCEPT !.username = username]
    /\ rpc' = "entry_updated"
    /\ UNCHANGED <<server, tmp, username, errors, flow_result, logged, refresh_requested, probe>>
    /\ UNCHANGED setup_vars
    /\ UNCHANGED client_vars
    /\ UNCHANGED cycle_vars

\* async_update_entry(entry, data=new_data)
ReauthUpdateEntry ==
    /\ rpc = "logged_in"
    /\ entry' = [entry EXCEPT !.token = tmp.token, !.username = username]
    /\ rpc' = "entry_updated"
    /\ UNCHANGED <<server, tmp, username, errors, flow_result, logged, refresh_requested, probe>>
    /\ UNCHANGED setup_vars
    /\ UNCHANGED client_vars
    /\ UNCHANGED cycle_vars

\* a reauth step that sets the token of its own client, not of the live one
ReauthSetToken_on_own_client ==
    /\ rpc = "entry_updated"
    /\ rpc' = IF spc = "loaded" THEN "token_set" ELSE "done"
    /\ tmp' = set_token(tmp, tmp.token)
    /\ UNCHANGED <<session, pet_id, username, errors, flow_result, logged, server, entry,
                   refresh_requested, probe>>
    /\ UNCHANGED setup_vars
    /\ UNCHANGED cycle_vars

\* coordinator.api.set_token(api.token), when the entry has runtime_data
ReauthSetToken ==
    /\ rpc = "entry_updated"
    /\ IF spc = "loaded"
       THEN session' = set_token(session, tmp.token) /\ rpc' = "token_set"
       ELSE UNCHANGED session /\ rpc' = "done"
    /\ UNCHANGED <<pet_id, tmp, username, errors, flow_result, logged, server, entry,
                   refresh_requested, probe>>
    /\ UNCHANGED setup_vars
    /\ UNCHANGED cycle_vars

\* await coordinator.async_request_refresh()
ReauthRequestRefresh ==
    /\ rpc = "token_set"
    /\ refresh_requested' = TRUE
    /\ rpc' = "refresh_requested"
    /\ UNCHANGED <<server, tmp, username, errors, flow_result, logged, entry, probe>>
    /\ UNCHANGED setup_vars
    /\ UNCHANGED client_vars
    /\ UNCHANGED cycle_vars

\* a reauth step that lets the failure of the refresh it requested out
ReauthFinish_propagates ==
    /\ rpc \in {"refresh_requested", "done"}
    /\ rpc' = "none"
    /\ flow_result' = IF /\ rpc = "refresh_requested"
                         /\ ~refresh_requested
                         /\ cpc = "idle"
                         /\ cstate \in {"Failed", "AuthRequired"}
                      THEN "UpdateFailed"
                      ELSE "reauth_successful"
    /\ tmp' = NewClient(NoToken)
    /\ username' = ""
    /\ UNCHANGED <<server, errors, logged, entry, refresh_requested, probe>>
    /\ UNCHANGED setup_vars
    /\ UNCHANGED client_vars
    /\ UNCHANGED cycle_vars

\* return self.async_abort(reason="reauth_successful")
ReauthFinish ==
    /\ rpc \in {"refresh_requested", "done"}
    /\ rpc' = "none"
    /\ flow_result' = "reauth_successful"
    /\ tmp' = NewClient(NoToken)
    /\ username' = ""
    /\ UNCHANGED <<server, errors, logged, entry, refresh_requested, probe>>
    /\ UNCHANGED setup_vars
    /\ UNCHANGED client_vars
    /\ UNCHANGED cycle_vars

Next ==
    \/ SetupEntry
    \/ \E resp \in PetActivityResponses(server) : ValidateResponse(resp)
    \/ \E kind \in {"scheduled", "manual", "requested"} : Tick(kind)
    \/ \E resp \in PetActivityResponses(server) : LatestResponse(resp)
    \/ \E resp \in PetActivityResponses(server) : ReadingsResponse(resp)
    \/ ServerChanges
    \/ \E name \in Usernames : ReauthSubmit(name)
    \/ \E resp \in ReauthLoginResponses : ReauthLoginResponse(resp)
    \/ ReauthUpdateEntry
    \/ ReauthSetToken
    \/ ReauthRequestRefresh
    \/ ReauthFinish

Spec == Init /\ [][Next]_vars

(***************************************************************************)
(* One call of get_pet_activity on its own, for every answer.              *)
(***************************************************************************)
FetchServers == ScenarioServers \cup {Server(<<>>, CatMissing, NoneV, NoneV)}

InitFetch ==
    /\ \E srv \in FetchServers : InitWith(srv)
    /\ probe \in {[pc |-> "call", fn |-> fn, resp |-> r] :
                    fn \in {"get_pet_activity", "validate_connection"},
                    r \in UNION {PetActivityResponses(srv) : srv \in FetchServers}}

system_vars ==
    <<server, entry, spc, setup_raised, validated, session, pet_id, request, cpc, cstate, raised,
      latest_reading, data, fetched, refresh_requested, rpc, tmp, username, errors,
      flow_result, logged>>

\* get_pet_activity reads the answer to its request
ProbeGetPetActivity ==
    /\ probe.pc = "call"
    /\ probe.fn = "get_pet_activity"
    /\ probe' = [pc |-> "done", fn |-> probe.fn, resp |-> probe.resp,
                 before |-> [session |-> session, pet_id |-> pet_id],
                 out |-> get_pet_activity(probe.resp)]
    /\ UNCHANGED system_vars

\* validate_connection reads the answer to the request of its fetch
ProbeValidateConnection ==
    /\ probe.pc = "call"
    /\ probe.fn = "validate_connection"
    /\ probe' = [pc |-> "done", fn |-> probe.fn, resp |-> probe.resp,
                 before |-> [session |-> session, pet_id |-> pet_id],
                 fetch |-> get_pet_activity(probe.resp),
                 out |-> validate_connection(get_pet_activity(probe.resp))]
    /\ UNCHANGED system_vars

NextFetch ==
    \/ ProbeGetPetActivity
    \/ ProbeValidateConnection

SpecFetch == InitFetch /\ [][NextFetch]_vars

FetchDone == probe.pc = "done" /\ probe.fn = "get_pet_activity"

\* C1: a response with status 401 makes get_pet_activity raise
\* AlphaTrakAuthError, whatever its body, flag and data.
C1_Unauthorized ==
    (FetchDone /\ probe.resp.net = "ok" /\ probe.resp.status = HTTP_UNAUTHORIZED)
        => probe.out.exc = "AlphaTrakAuthError"

\* a 401 with a parsed body, a true flag and data present has been answered
C1_Witness ==
    /\ FetchDone
    /\ probe.resp.net = "ok"
    /\ probe.resp.status = HTTP_UNAUTHORIZED
    /\ probe.resp.body = "json"
    /\ probe.resp.is_success = "true"
    /\ GlucoseOf(probe.resp.data) = "readings"
    /\ probe.out.exc = "AlphaTrakAuthError"

\* C2: a response that is not a 401, parses and carries a non-null
\* ResponseData makes get_pet_activity return exactly that ResponseData, for
\* every status and flag.
C2_DataWins ==
    (/\ FetchDone
     /\ probe.resp.net = "ok"
     /\ probe.resp.status # HTTP_UNAUTHORIZED
     /\ probe.resp.body = "json"
     /\ probe.resp.data.present = "value")
        => (probe.out.exc = "none" /\ probe.out.val = probe.resp.data)

\* a 404 with a false flag and readings has returned them
C2_Witness ==
    /\ FetchDone
    /\ probe.resp.net = "ok"
    /\ probe.resp.status = HTTP_NOT_FOUND
    /\ probe.resp.body = "json"
    /\ probe.resp.is_success = "false"
    /\ GlucoseOf(probe.resp.data) = "readings"
    /\ probe.out.exc = "none"
    /\ probe.out.val = probe.resp.data

\* C3: a response that is not a 401, parses and has a null or missing
\* ResponseData makes get_pet_activity raise AlphaTrakApiError when the
\* status is not 200, or is 200 with a false or missing flag.
C3_NoData ==
    (/\ FetchDone
     /\ probe.resp.net = "ok"
     /\ probe.resp.status # HTTP_UNAUTHORIZED
     /\ probe.resp.body = "json"
     /\ probe.resp.data.present \in {"null", "missing"}
     /\ (probe.resp.status # HTTP_OK \/ probe.resp.is_success \in {"false", "missing"}))
        => probe.out.exc = "AlphaTrakApiError"

\* a 200 with a missing flag and no ResponseData key has raised AlphaTrakApiError
C3_Witness ==
    /\ FetchDone
    /\ probe.resp.net = "ok"
    /\ probe.resp.status = HTTP_OK
    /\ probe.resp.body = "json"
    /\ probe.resp.is_success = "missing"
    /\ probe.resp.data.present = "missing"
    /\ probe.out.exc = "AlphaTrakApiError"

(***************************************************************************)
(* The poll cycle and the reauthentication flow in the whole system.       *)
(***************************************************************************)
CycleEnded == cpc = "idle" /\ Len(fetched) >= 1

ClientErrors == {"AlphaTrakAuthError", "AlphaTrakConnectionError", "AlphaTrakApiError"}

\* C4: a cycle in which a fetch raised AlphaTrakAuthError ends raising
\* ConfigEntryAuthFailed, in AuthRequired; one in which a fetch raised
\* AlphaTrakConnectionError or AlphaTrakApiError ends raising UpdateFailed, in
\* Failed; a cycle that ends in Ready had no fetch raise, and one that ends in
\* AuthRequired had its last fetch raise AlphaTrakAuthError.
C4_ErrorMapping ==
    CycleEnded =>
        LET last == fetched[Len(fetched)].exc
        IN  /\ \A i \in 1..(Len(fetched) - 1) : fetched[i].exc = "none"
            /\ last = "AlphaTrakAuthError"
                   => (raised = "ConfigEntryAuthFailed" /\ cstate = "AuthRequired")
            /\ last \in {"AlphaTrakConnectionError", "AlphaTrakApiError"}
                   => (raised = "UpdateFailed" /\ cstate = "Failed")
            /\ cstate = "Ready" => last \notin ClientErrors
            /\ cstate = "AuthRequired" => last = "AlphaTrakAuthError"

\* a cycle whose second fetch raised AlphaTrakAuthError has ended in AuthRequired
C4_Witness ==
    /\ CycleEnded
    /\ Len(fetched) = 2
    /\ fetched[2].exc = "AlphaTrakAuthError"
    /\ raised = "ConfigEntryAuthFailed"
    /\ cstate = "AuthRequired"

\* C5: a cycle whose first fetch returns a payload without a BloodGlucose
\* entry (no payload, no PetActivity, no BloodGlucose list or an empty one)
\* ends raising UpdateFailed, in Failed, whatever the other categories hold.
C5_NoReadingFails ==
    (/\ CycleEnded
     /\ fetched[1].exc = "none"
     /\ fetched[1].glucose \in {"none", "no_activity", "no_glucose", "empty"})
        => (Len(fetched) = 1 /\ raised = "UpdateFailed" /\ cstate = "Failed")

\* a cycle has failed on a payload with Insulin entries and an empty
\* BloodGlucose list
C5_Witness ==
    /\ CycleEnded
    /\ fetched[1].exc = "none"
    /\ fetched[1].glucose = "empty"
    /\ fetched[1].others
    /\ raised = "UpdateFailed"
    /\ cstate = "Failed"

\* a step in which the live client issues a request
IssuesRequest ==
    \/ spc # "validating" /\ spc' = "validating"
    \/ cpc # "latest" /\ cpc' = "latest"
    \/ cpc # "readings" /\ cpc' = "readings"

\* a step in which the reauth flow calls set_token on the live client
CallsSetToken == rpc = "entry_updated" /\ rpc' = "token_set"

\* C6: a request is issued with the token the client holds at that moment,
\* behind "bearer"; set_token stores the new token and leaves the request in
\* flight as it is; a request in flight changes in no other step.
C6_TokenReplacement ==
    [][/\ IssuesRequest
           => (request'.active /\ request'.auth = <<"bearer", session'.token>>)
       /\ CallsSetToken => (session'.token = tmp.token /\ request' = request)
       /\ (request.active /\ request'.active /\ ~IssuesRequest) => request' = request
      ]_vars

\* set_token has replaced the token while a request issued with the old one
\* is in flight
C6_Witness ==
    /\ rpc = "token_set"
    /\ request.active
    /\ session.token = 2
    /\ request.auth = <<"bearer", 1>>

\* C7: the reauth flow calls set_token only after its login has returned and
\* the entry is updated, on the live client and with the token of that login;
\* it requests the refresh only after that, the live client holding the new
\* token; the client of the login is left as it is.
C7_ReauthOrder ==
    [][/\ rpc' = "token_set" /\ rpc # "token_set"
           => /\ rpc = "entry_updated"
              /\ spc = "loaded"
              /\ entry.token = tmp.token
              /\ session'.token = tmp.token
              /\ tmp' = tmp
       /\ refresh_requested' /\ ~refresh_requested
           => /\ rpc = "token_set"
              /\ session.token = tmp.token
              /\ session' = session
      ]_vars

\* the refresh has been requested, the live client holding the new token
C7_Witness ==
    /\ rpc = "refresh_requested"
    /\ refresh_requested
    /\ session.token = 2
    /\ tmp.token = 2
    /\ entry.token = 2

SnapshotFields ==
    {"latest_reading", "recent_readings", "recent_activities", "latest_activities", "pet_id"}

\* C8: every snapshot a cycle publishes has the five fields latest_reading,
\* recent_readings, recent_activities, latest_activities and pet_id.
C8_AllFields == data # <<>> => SnapshotFields \subseteq DOMAIN data[1]

\* the extracted datetimes of a list of entries, in its order
Datetimes(entries) == [i \in 1..Len(entries) |-> _extract_entry_datetime(entries[i])]

\* the cycle has just published data[1]
Published == cpc = "idle" /\ cstate = "Ready" /\ Len(fetched) = 2 /\ data # <<>>

InsulinLists == {CatMissing, CatList(<<>>), CatList(<<I_JAN01, I_JAN02>>)}
Ranges == {<<NumV(70), NumV(180)>>, <<NoneV, NoneV>>}

\* servers with every BloodGlucose list of up to MaxEntries entries
RichServers ==
    {Server(bg, ins, r[1], r[2]) :
        bg \in ListsUpTo(GlucoseEntries, MaxEntries), ins \in InsulinLists, r \in Ranges}

\* What the fetch of a normalizer call can come to with server srv: its full
\* payload; for a server without readings also the other shapes and the
\* client's exceptions.
FetchOutcomes(srv) ==
    {Return(PayloadOf(srv, "full"))}
    \cup (IF srv.bg = <<>>
          THEN {Return(PayloadOf(srv, shape)) : shape \in Shapes}
               \cup {Raise(exc, NonePayload) : exc \in ClientErrors}
          ELSE {})

NormFunctions ==
    {"get_latest_glucose_reading", "get_glucose_readings", "get_recent_activities",
     "get_latest_activities"}

InitNorm ==
    /\ \E srv \in RichServers :
          /\ InitWith(srv)
          /\ probe \in {[pc |-> "call", fn |-> fn, fetched |-> f] :
                          fn \in NormFunctions, f \in FetchOutcomes(srv)}

\* the call of the probe returns or raises out
NormReturns(fn, out) ==
    /\ probe.pc = "call"
    /\ probe.fn = fn
    /\ probe' = [pc |-> "done", fn |-> fn, fetched |-> probe.fetched, out |-> out]
    /\ UNCHANGED system_vars

\* get_latest_glucose_reading from the return of its fetch on
ProbeGetLatestGlucoseReading ==
    NormReturns("get_latest_glucose_reading", get_latest_glucose_reading(probe.fetched))

\* get_glucose_readings from the return of its fetch on
ProbeGetGlucoseReadings ==
    NormReturns("get_glucose_readings", get_glucose_readings(probe.fetched))

\* get_recent_activities from the return of its fetch on
ProbeGetRecentActivities ==
    NormReturns("get_recent_activities", get_recent_activities(probe.fetched))

\* get_latest_activities from the return of its fetch on
ProbeGetLatestActivities ==
    /\ probe.pc = "call"
    /\ probe.fn = "get_latest_activities"
    /\ probe' = [pc |-> "done", fn |-> probe.fn, fetched |-> probe.fetched,
                 out |-> get_latest_activities(probe.fetched)]
    /\ UNCHANGED system_vars

NextNorm ==
    \/ ProbeGetLatestGlucoseReading
    \/ ProbeGetGlucoseReadings
    \/ ProbeGetRecentActivities
    \/ ProbeGetLatestActivities

SpecNorm == InitNorm /\ [][NextNorm]_vars

LatestDone == probe.pc = "done" /\ probe.fn = "get_latest_activities"

\* entry i of entries has the greatest extracted datetime, and is the first
\* of the list to have it
FirstGreatest(entries, i) ==
    /\ \A j \in 1..Len(entries) :
          ~StrLess(_extract_entry_datetime(entries[i]), _extract_entry_datetime(entries[j]))
    /\ \A j \in 1..(i - 1) :
          _extract_entry_datetime(entries[j]) # _extract_entry_datetime(entries[i])

\* C10: for every category of the payload, get_latest_activities gives None
\* when its list is empty, else the entry whose extracted datetime is the
\* greatest in lexicographic order, the first of them in the payload's order
\* when several have it (with MinRange and MaxRange set for BloodGlucose).
C10_LatestPerCategory ==
    (LatestDone /\ probe.fetched.exc = "none" /\ ~IsNone(probe.fetched.val)
                /\ probe.fetched.val.pa = "dict")
        => /\ probe.out.exc = "none"
           /\ \A c \in Categories :
                LET payload == probe.fetched.val
                    entries == payload.cats[c].l
                    latest == probe.out.val[c]
                IN  IF payload.cats[c].st = "missing" THEN latest = LatestAbsent
                    ELSE IF entries = <<>> THEN latest = LatestNone
                    ELSE \E i \in 1..Len(entries) :
                            /\ FirstGreatest(entries, i)
                            /\ latest.st = "entry"
                            /\ latest.e = IF c = RESPONSE_BLOOD_GLUCOSE
                                          THEN WithRange(entries[i], payload.min, payload.max)
                                          ELSE entries[i]

\* of two readings with the greatest datetime the first one has been picked,
\* and the empty Insulin list has given None
C10_Witness ==
    /\ LatestDone
    /\ probe.fetched.exc = "none"
    /\ probe.fetched.val.cats[RESPONSE_BLOOD_GLUCOSE].l = <<E_JAN01, E_JAN02, E_JAN02B>>
    /\ probe.fetched.val.cats[RESPONSE_INSULIN] = CatList(<<>>)
    /\ probe.out.val[RESPONSE_BLOOD_GLUCOSE] = LatestIs(WithRange(E_JAN02, NumV(70), NumV(180)))
    /\ probe.out.val[RESPONSE_INSULIN] = LatestNone

NormDone(fn) == probe.pc = "done" /\ probe.fn = fn /\ probe.out.exc = "none"

\* C11: for every payload, the reading get_latest_glucose_reading returns is
\* the entry get_latest_activities gives for BloodGlucose on the same payload,
\* and the head of the BloodGlucose list sorted by extracted datetime,
\* descending.
C11_SameSelection ==
    (NormDone("get_latest_glucose_reading") /\ probe.out.val.some)
        => LET payload == probe.fetched.val
               readings == CategoryList(payload, RESPONSE_BLOOD_GLUCOSE)
               by_datetime == sorted_reverse(readings, Datetimes(readings))
           IN  /\ get_latest_activities(probe.fetched).val[RESPONSE_BLOOD_GLUCOSE]
                      = LatestIs(probe.out.val.e)
               /\ probe.out.val.e = WithRange(by_datetime[1], payload.min, payload.max)

\* entry e has MinRange and MaxRange, with the values of the payload
Annotated(e, payload) ==
    /\ HasKey(e, RESPONSE_MIN_RANGE)
    /\ HasKey(e, RESPONSE_MAX_RANGE)
    /\ DictGet(e, RESPONSE_MIN_RANGE, StrV(EmptyStr)) = payload.min
    /\ DictGet(e, RESPONSE_MAX_RANGE, StrV(EmptyStr)) = payload.max

\* entry e has neither MinRange nor MaxRange
NotAnnotated(e) == ~HasKey(e, RESPONSE_MIN_RANGE) /\ ~HasKey(e, RESPONSE_MAX_RANGE)

\* C12: every BloodGlucose entry that get_glucose_readings,
\* get_recent_activities, get_latest_glucose_reading and get_latest_activities
\* return has MinRange and MaxRange set to the MinRange and MaxRange of the
\* payload (None when the payload has none); the Insulin entries they return
\* have neither key.
C12_RangeAnnotation ==
    LET payload == probe.fetched.val
        out == probe.out.val
        glucose == CategoryList(payload, RESPONSE_BLOOD_GLUCOSE)
    IN  /\ NormDone("get_glucose_readings")
            => /\ Len(out) = Len(glucose)
               /\ \A i \in 1..Len(out) : Annotated(out[i], payload)
        /\ NormDone("get_recent_activities")
            => /\ Len(out[RESPONSE_BLOOD_GLUCOSE].l) = Len(glucose)
               /\ \A i \in 1..Len(out[RESPONSE_BLOOD_GLUCOSE].l) :
                     Annotated(out[RESPONSE_BLOOD_GLUCOSE].l[i], payload)
               /\ \A i \in 1..Len(out[RESPONSE_INSULIN].l) :
                     NotAnnotated(out[RESPONSE_INSULIN].l[i])
        /\ NormDone("get_latest_glucose_reading")
            => /\ out.some <=> glucose # <<>>
               /\ out.some => Annotated(out.e, payload)
        /\ NormDone("get_latest_activities")
            => /\ out[RESPONSE_BLOOD_GLUCOSE].st = "entry" <=> glucose # <<>>
               /\ out[RESPONSE_BLOOD_GLUCOSE].st = "entry"
                     => Annotated(out[RESPONSE_BLOOD_GLUCOSE].e, payload)
               /\ out[RESPONSE_INSULIN].st = "entry"
                     => NotAnnotated(out[RESPONSE_INSULIN].e)

\* get_recent_activities has returned the readings of a payload without
\* MinRange and MaxRange with both keys set to None, and its Insulin entries
\* as they were
C12_Witness ==
    /\ NormDone("get_recent_activities")
    /\ probe.fetched.val.min = NoneV
    /\ probe.fetched.val.max = NoneV
    /\ Len(probe.out.val[RESPONSE_BLOOD_GLUCOSE].l) = 2
    /\ DictGet(probe.out.val[RESPONSE_BLOOD_GLUCOSE].l[2], RESPONSE_MAX_RANGE, StrV(EmptyStr))
          = NoneV
    /\ probe.out.val[RESPONSE_INSULIN].l = <<I_JAN01, I_JAN02>>

(***************************************************************************)
(* One client on its own: a call of login, get_pets, set_token or          *)
(* get_pet_activity on a client in any session, and get_pets after login.  *)
(***************************************************************************)
\* The sessions a client can be in: created without a token or with one,
\* logged in, and logged in with its token taken away by set_token(None).
Sessions ==
    {NoSession, [token |-> NoToken, user_id |-> UserOf(1)]}
    \cup {[token |-> t, user_id |-> NoUser] : t \in Tokens}
    \cup {[token |-> t, user_id |-> UserOf(t)] : t \in Tokens}

\* the pet of a client: the entry's, or none (a client of the config flow)
ClientPets == PetIds \cup {NoPet}

PetsData ==
    {[st |-> "list", l |-> <<>>], [st |-> "list", l |-> <<7>>],
     [st |-> "null", l |-> <<>>], [st |-> "missing", l |-> <<>>],
     [st |-> "not_list", l |-> <<>>]}

\* Every answer to a get_pets request.
PetsResponses ==
    {PetsNetFailure(k) : k \in {"timeout", "client_error", "cancelled"}}
    \cup {PetsResponse(st, "json", f, p) :
            st \in Statuses, f \in SuccessFlags, p \in PetsData}
    \cup {PetsResponse(st, b, "missing", [st |-> "missing", l |-> <<>>]) :
            st \in Statuses, b \in Bodies \ {"json"}}

\* the calls made on the client
ClientCalls(srv) ==
    {[pc |-> "call", fn |-> "login", resp |-> r] : r \in LoginResponses}
    \cup {[pc |-> "call", fn |-> "get_pets"]}
    \cup {[pc |-> "call", fn |-> "set_token", tok |-> t] : t \in Tokens \cup {NoToken}}
    \cup {[pc |-> "call", fn |-> "get_pet_activity", resp |-> r] :
            r \in PetActivityResponses(srv)}

InitClient ==
    /\ server \in ScenarioServers
    /\ entry \in [token : {1}, username : {"alice"}, pet_id : PetIds]
    /\ spc = "unloaded"
    /\ setup_raised = "none"
    /\ validated = "none"
    /\ session \in Sessions
    /\ pet_id \in ClientPets
    /\ request = NoRequest
    /\ cpc = "idle"
    /\ cstate = "Idle"
    /\ raised = "none"
    /\ latest_reading = <<>>
    /\ data = <<>>
    /\ fetched = <<>>
    /\ refresh_requested = FALSE
    /\ rpc = "none"
    /\ tmp = NewClient(NoToken)
    /\ username = ""
    /\ errors = ""
    /\ flow_result = ""
    /\ logged = NotLogged
    /\ probe \in ClientCalls(server)

\* what a call on the client leaves alone, the client apart
host_vars ==
    <<server, entry, spc, setup_raised, validated, cpc, cstate, raised, latest_reading, data,
      fetched, refresh_requested, rpc, tmp, username, errors, flow_result, logged>>

\* the client as a call finds it
Before == [session |-> session, pet_id |-> pet_id]

\* login reads the answer to its request
ProbeLogin ==
    /\ probe.pc = "call"
    /\ probe.fn = "login"
    /\ LET r == login(session, probe.resp)
       IN  /\ session' = r.session
           /\ probe' = [pc |-> "done", fn |-> "login", resp |-> probe.resp,
                        before |-> Before, out |-> [exc |-> r.exc]]
    /\ UNCHANGED <<pet_id, request>>
    /\ UNCHANGED host_vars

\* get_pets is called, on its own or after a login: it raises, or sends its
\* request
ProbeGetPetsCall ==
    /\ \/ probe.pc = "call" /\ probe.fn = "get_pets"
       \/ probe.pc = "done" /\ probe.fn = "login"
    /\ LET prev == IF probe.fn = "login" THEN probe ELSE [pc |-> "none"]
       IN  IF get_pets_guard(session) = "none"
           THEN /\ request' = PetsRequest(session)
                /\ probe' = [pc |-> "await", fn |-> "get_pets", before |-> Before,
                             prev |-> prev, sent |-> TRUE]
           ELSE /\ UNCHANGED request
                /\ probe' = [pc |-> "done", fn |-> "get_pets", before |-> Before,
                             prev |-> prev, sent |-> FALSE,
                             out |-> Raise(get_pets_guard(session), <<>>)]
    /\ UNCHANGED <<session, pet_id>>
    /\ UNCHANGED host_vars

\* get_pets reads the answer to its request
ProbeGetPetsResponse(resp) ==
    /\ probe.pc = "await"
    /\ probe.fn = "get_pets"
    /\ request' = NoRequest
    /\ probe' = [pc |-> "done", fn |-> "get_pets", before |-> probe.before,
                 prev |-> probe.prev, sent |-> TRUE, resp |-> resp,
                 out |-> get_pets(resp)]
    /\ UNCHANGED <<session, pet_id>>
    /\ UNCHANGED host_vars

\* set_token(tok)
ProbeSetToken ==
    /\ probe.pc = "call"
    /\ probe.fn = "set_token"
    /\ session' = set_token(session, probe.tok)
    /\ probe' = [pc |-> "done", fn |-> "set_token", tok |-> probe.tok, before |-> Before]
    /\ UNCHANGED <<pet_id, request>>
    /\ UNCHANGED host_vars

NextClient ==
    \/ ProbeLogin
    \/ ProbeGetPetsCall
    \/ \E resp \in PetsResponses : ProbeGetPetsResponse(resp)
    \/ ProbeSetToken
    \/ ProbeGetPetActivity

SpecClient == InitClient /\ [][NextClient]_vars

ClientDone(fn) == probe.pc = "done" /\ probe.fn = fn

\* C13: login raises AlphaTrakAuthError for a response with status 401, and
\* AlphaTrakApiError for one with another status that is not 200 and for a
\* 200 response whose IsSuccess is false or missing; in these cases it
\* returns nothing.
C13_LoginClassifies ==
    (ClientDone("login") /\ probe.resp.net = "ok")
        => /\ probe.resp.status = HTTP_UNAUTHORIZED
                => probe.out.exc = "AlphaTrakAuthError"
           /\ probe.resp.status \notin {HTTP_OK, HTTP_UNAUTHORIZED}
                => probe.out.exc = "AlphaTrakApiError"
           /\ (/\ probe.resp.status = HTTP_OK
               /\ probe.resp.body = "json"
               /\ probe.resp.is_success \in {"false", "missing"})
                => probe.out.exc = "AlphaTrakApiError"

\* a login answered 401 with a true flag and a token has raised
\* AlphaTrakAuthError
C13_Witness ==
    /\ ClientDone("login")
    /\ probe.resp.net = "ok"
    /\ probe.resp.status = HTTP_UNAUTHORIZED
    /\ probe.resp.is_success = "true"
    /\ probe.resp.access_token = 2
    /\ probe.out.exc = "AlphaTrakAuthError"

\* a login that has returned for a response with status 200 and a true
\* IsSuccess
LoginReturned ==
    /\ ClientDone("login")
    /\ probe.out.exc = "none"
    /\ probe.resp.status = HTTP_OK
    /\ probe.resp.is_success = "true"

\* C14 as stated: after every login that returns, the client holds the
\* access token and the numeric user id of the response.
C14_TokenAndUser ==
    LoginReturned
        => /\ session.token # NoToken
           /\ session.token = probe.resp.access_token
           /\ session.user_id = UserOf(session.token)

\* C14: after a login that returns for a response with an access token, the
\* client holds that token and the user id of the same response, or no user
\* id when the response has no Id or one that is no number; after a login
\* that returns for a response without an access token, the client holds the
\* token and the user id it held before.
C14_TokenWithItsUser ==
    LoginReturned
        => IF probe.resp.access_token # NoToken
           THEN /\ session.token = probe.resp.access_token
                /\ session.user_id = IF probe.resp.id = "num"
                                     THEN UserOf(probe.resp.access_token) ELSE NoUser
           ELSE session = probe.before.session

\* a client logged in as another user has logged in again, the response
\* without Id: it holds the new token and no user id
C14_Witness ==
    /\ LoginReturned
    /\ probe.before.session = [token |-> 1, user_id |-> UserOf(1)]
    /\ probe.resp.access_token = 2
    /\ probe.resp.id = "missing"
    /\ session = [token |-> 2, user_id |-> NoUser]

\* get_pets has been called after a login that returned for a response
\* without an access token
AfterTokenlessLogin ==
    /\ ClientDone("get_pets")
    /\ probe.prev.pc = "done"
    /\ probe.prev.out.exc = "none"
    /\ probe.prev.resp.access_token = NoToken

\* C15: a login answered 200 and successful without an access token returns
\* and leaves the token and the user id of the client as they were; on a
\* client created without a token, the get_pets that follows raises
\* AlphaTrakAuthError.
C15_TokenlessLogin ==
    /\ (LoginReturned /\ probe.resp.access_token = NoToken)
          => (session = probe.before.session /\ pet_id = probe.before.pet_id)
    /\ (AfterTokenlessLogin /\ probe.prev.before.session.token = NoToken)
          => (probe.out.exc = "AlphaTrakAuthError" /\ ~probe.sent)

\* on a client created without a token, get_pets has raised
\* AlphaTrakAuthError after a login that returned without a token
C15_Witness ==
    /\ AfterTokenlessLogin
    /\ probe.prev.before.session = NoSession
    /\ probe.prev.resp.status = HTTP_OK
    /\ probe.prev.resp.is_success = "true"
    /\ session = NoSession
    /\ probe.out.exc = "AlphaTrakAuthError"

\* C16: get_pets sends its request only on a client with a token and a user
\* id; without a token it raises AlphaTrakAuthError, with a token and without
\* a user id AlphaTrakApiError, and sends nothing in both cases.
C16_PetsGuard ==
    /\ (probe.fn = "get_pets" /\ probe.pc \in {"await", "done"})
          => /\ probe.sent <=> (probe.before.session.token # NoToken
                                /\ probe.before.session.user_id # NoUser)
             /\ probe.pc = "await"
                   => request = [active |-> TRUE,
                                 auth |-> <<"bearer", session.token>>,
                                 userId |-> session.user_id]
             /\ (probe.pc = "done" /\ probe.before.session.token = NoToken)
                   => probe.out.exc = "AlphaTrakAuthError"
             /\ (/\ probe.pc = "done"
                 /\ probe.before.session.token # NoToken
                 /\ probe.before.session.user_id = NoUser)
                   => probe.out.exc = "AlphaTrakApiError"
    /\ request.active => (session.token # NoToken /\ session.user_id # NoUser)

\* get_pets has raised AlphaTrakAuthError, sending nothing, on a client with
\* neither token nor user id
C16_Witness ==
    /\ ClientDone("get_pets")
    /\ probe.prev.pc = "none"
    /\ probe.before.session = NoSession
    /\ ~probe.sent
    /\ ~request.active
    /\ probe.out.exc = "AlphaTrakAuthError"

\* C17: after set_token(t) the client holds the token t, whatever it held,
\* and the user id and the pet id it had.
C17_SetTokenFrame ==
    ClientDone("set_token")
        => /\ session.token = probe.tok
           /\ session.user_id = probe.before.session.user_id
           /\ pet_id = probe.before.pet_id

\* set_token has replaced the token of a logged-in client
C17_Witness ==
    /\ ClientDone("set_token")
    /\ probe.before.session = [token |-> 1, user_id |-> UserOf(1)]
    /\ probe.before.pet_id = 7
    /\ probe.tok = 2
    /\ session = [token |-> 2, user_id |-> UserOf(1)]
    /\ pet_id = 7

\* a call of login, get_pets or get_pet_activity has ended, its request answered
AnsweredCall ==
    /\ probe.pc = "done"
    /\ \/ probe.fn \in {"login", "get_pet_activity"}
       \/ probe.fn = "get_pets" /\ probe.sent

\* a call of login, get_pets or get_pet_activity has raised
FailedCall ==
    /\ probe.pc = "done"
    /\ probe.fn \in {"login", "get_pets", "get_pet_activity"}
    /\ probe.out.exc # "none"

\* C20: a login, get_pets or get_pet_activity whose request times out or
\* fails in transport raises AlphaTrakConnectionError; after a call that
\* raised, the client holds the token, the user id and the pet id it held
\* before the call.
C20_FailedCallKeepsSession ==
    /\ (AnsweredCall /\ probe.resp.net \in {"timeout", "client_error"})
          => probe.out.exc = "AlphaTrakConnectionError"
    /\ FailedCall => (session = probe.before.session /\ pet_id = probe.before.pet_id)

\* a login of a logged-in client, answered 200 with a token and a false
\* IsSuccess, has raised and left the session as it was
C20_Witness ==
    /\ ClientDone("login")
    /\ probe.resp.status = HTTP_OK
    /\ probe.resp.body = "json"
    /\ probe.resp.is_success = "false"
    /\ probe.resp.access_token = 2
    /\ probe.out.exc = "AlphaTrakApiError"
    /\ probe.before.session = [token |-> 1, user_id |-> UserOf(1)]
    /\ session = [token |-> 1, user_id |-> UserOf(1)]

\* the errors of the client that are no authentication failure
TransientErrors == {"AlphaTrakConnectionError", "AlphaTrakApiError"}

\* what the host sees of a setup whose validation fetch raised exc
SetupOutcome(exc) == SetupRaises(validate_connection(Raise(exc, NonePayload)))

\* C18: where a fetch raises AlphaTrakAuthError, the host sees another
\* outcome than it sees where a fetch raises AlphaTrakConnectionError or
\* AlphaTrakApiError, in the poll cycle and in the validation of the setup.
C18_AuthDistinguishable ==
    /\ (CycleEnded /\ fetched[Len(fetched)].exc = "AlphaTrakAuthError")
          => raised \notin {MapException(exc) : exc \in TransientErrors}
    /\ (spc = "unloaded" /\ validated = "AlphaTrakAuthError")
          => setup_raised \notin {SetupOutcome(exc) : exc \in TransientErrors}

\* C19: a get_pet_activity response that is no 401 and whose body does not
\* parse as JSON, for invalid JSON text and for a wrong or missing content
\* type, makes the call raise AlphaTrakApiError, whatever the status.
C19_ParseFailure ==
    (/\ FetchDone
     /\ probe.resp.net = "ok"
     /\ probe.resp.status # HTTP_UNAUTHORIZED
     /\ probe.resp.body \in {"invalid_json", "content_type"})
        => probe.out.exc = "AlphaTrakApiError"

\* a step in which a fetch of the poll cycle ends
FetchEnds == Len(fetched') = Len(fetched) + 1

\* C21: when the host cancels a poll cycle while a fetch is in flight,
\* get_pet_activity raises CancelledError and so does _async_update_data: the
\* cycle ends without an error of the client, without UpdateFailed or
\* ConfigEntryAuthFailed, and with the data it had.
C21_CancellationPropagates ==
    [][(FetchEnds /\ fetched'[Len(fetched')].cancelled)
          => /\ fetched'[Len(fetched')].exc = "CancelledError"
             /\ raised' = "CancelledError"
             /\ cpc' = "idle"
             /\ cstate' \notin {"Ready", "Failed", "AuthRequired"}
             /\ data' = data
      ]_vars

\* the second fetch of a cycle has been cancelled, a snapshot of an earlier
\* cycle still published
C21_Witness ==
    /\ cpc = "idle"
    /\ Len(fetched) = 2
    /\ fetched[2].cancelled
    /\ raised = "CancelledError"
    /\ data # <<>>

(***************************************************************************)
(* _extract_entry_datetime on its own: entries of up to MaxFields fields   *)
(* in every order, with keys that pass each of its tests and none, and     *)
(* with str and other values.                                              *)
(***************************************************************************)
\* "EntryDateTimeUtc": contains EntryDateTime without ending in it
KEY_ENTRY_DATETIME_UTC == <<"EntryDate", "Time", "Utc">>
\* "EntryDate"
KEY_ENTRY_DATE == <<"EntryDate">>

ExtractKeys ==
    {DATA_GLUCOSE_ENTRY_DATETIME, KEY_READING_ENTRY_DATETIME, KEY_ENTRY_DATETIME_UTC,
     KEY_ENTRY_DATE, DATA_GLUCOSE_LEVEL}

ExtractValues == {StrV(TS_JAN01), StrV(TS_JAN02), NumV(110)}

KeysOf(e) == {e[i].k : i \in 1..Len(e)}

RECURSIVE EntriesOfLen(_)
\* the dicts of n fields, as the sequences of their fields in dict order
EntriesOfLen(n) ==
    IF n = 0 THEN {<<>>}
    ELSE UNION {{Append(e, Field(k, v)) : k \in ExtractKeys \ KeysOf(e), v \in ExtractValues}
                  : e \in EntriesOfLen(n - 1)}

\* the dicts of at most n fields
ExtractEntries(n) == UNION {EntriesOfLen(m) : m \in 0..n}

InitExtract ==
    /\ \E srv \in ScenarioServers : InitWith(srv)
    /\ probe \in {[pc |-> "call", fn |-> "_extract_entry_datetime", entry |-> e,
                   out |-> EmptyStr, entries |-> <<>>, sorted |-> <<>>]
                    : e \in ExtractEntries(MaxFields)}

\* _extract_entry_datetime(entry)
ProbeExtractEntryDatetime ==
    /\ probe.pc = "call"
    /\ probe.fn = "_extract_entry_datetime"
    /\ probe' = [probe EXCEPT !.pc = "done", !.out = _extract_entry_datetime(probe.entry)]
    /\ UNCHANGED system_vars

\* the sort of get_latest_activities on a category list that holds the entry
\* and a dated one, in either order
ProbeSortByDatetime ==
    /\ probe.pc = "done"
    /\ probe.fn = "_extract_entry_datetime"
    /\ \E entries \in {<<probe.entry, E_JAN01>>, <<E_JAN01, probe.entry>>} :
          probe' = [probe EXCEPT !.pc = "sorted", !.entries = entries,
                                 !.sorted = SortedByDatetime(entries)]
    /\ UNCHANGED system_vars

NextExtract ==
    \/ ProbeExtractEntryDatetime
    \/ ProbeSortByDatetime

SpecExtract == InitExtract /\ [][NextExtract]_vars

ExtractDone == probe.pc \in {"done", "sorted"} /\ probe.fn = "_extract_entry_datetime"

\* the fields of entry whose key ends in EntryDateTime and whose value is a str
StrEndsFields(e) ==
    {i \in 1..Len(e) : EndsWithEntryDateTime(e[i].k) /\ e[i].v.kind = "str"}

\* the fields of entry whose key passes test and whose value is a str
StrFields(e, test(_)) == {i \in 1..Len(e) : test(e[i].k) /\ e[i].v.kind = "str"}

\* C22 as stated: _extract_entry_datetime returns the value of every field
\* whose name ends in EntryDateTime and that holds a timestamp string,
\* whatever the order of the fields and whatever other fields are present.
C22_AnyEndsField ==
    ExtractDone =>
        \A i \in StrEndsFields(probe.entry) : probe.out = probe.entry[i].v.s

\* C22: _extract_entry_datetime returns the value of the first field, in the
\* order of the entry, whose name ends in EntryDateTime and that holds a str,
\* whatever fields of other names or other value types stand before it; an
\* entry with one such field yields that field's value in every field order.
C22_FirstEndsField ==
    ExtractDone =>
        /\ StrEndsFields(probe.entry) # {}
              => probe.out = probe.entry[Min(StrEndsFields(probe.entry))].v.s
        /\ Cardinality(StrEndsFields(probe.entry)) = 1
              => \A i \in StrEndsFields(probe.entry) : probe.out = probe.entry[i].v.s

\* the timestamp field stands last, behind an EntryDate field with another
\* timestamp
C22_Witness ==
    /\ ExtractDone
    /\ probe.entry = <<Field(KEY_ENTRY_DATE, StrV(TS_JAN02)),
                       Field(DATA_GLUCOSE_LEVEL, NumV(110)),
                       Field(DATA_GLUCOSE_ENTRY_DATETIME, StrV(TS_JAN01))>>
    /\ probe.out = TS_JAN01

\* no key of entry ends in EntryDateTime
NoEndsKey(e) == \A i \in 1..Len(e) : ~EndsWithEntryDateTime(e[i].k)

\* C29: _extract_entry_datetime returns a string for every entry.  When no
\* field name ends in EntryDateTime it returns the str value of a field whose
\* name contains EntryDate: of the first whose name contains EntryDateTime,
\* else of the first whose name contains EntryDate.  When no field whose name
\* contains EntryDate holds a str (no such field, or only values of other
\* types) it returns "".  In the descending sort an entry that yields ""
\* stands behind a dated entry, whichever came first.
C29_Fallback ==
    ExtractDone =>
        LET e == probe.entry
            second == StrFields(e, ContainsEntryDateTime)
            third == StrFields(e, ContainsEntryDate)
        IN  /\ probe.out \in {EmptyStr, TS_JAN01, TS_JAN02}
            /\ (NoEndsKey(e) /\ second # {}) => probe.out = e[Min(second)].v.s
            /\ (NoEndsKey(e) /\ second = {} /\ third # {}) => probe.out = e[Min(third)].v.s
            /\ third = {} => probe.out = EmptyStr
            /\ (probe.pc = "sorted" /\ probe.out = EmptyStr)
                  => probe.sorted = <<E_JAN01, e>>

\* an entry whose timestamp field holds a number yields "" and is sorted
\* behind the dated entry that came after it
C29_Witness ==
    /\ probe.pc = "sorted"
    /\ probe.entry = <<Field(DATA_GLUCOSE_ENTRY_DATETIME, NumV(110))>>
    /\ probe.entries = <<probe.entry, E_JAN01>>
    /\ probe.out = EmptyStr
    /\ probe.sorted[2] = probe.entry

\* a call of get_recent_activities or get_latest_activities has ended on a
\* fetch that returned a payload whose PetActivity, if present, is a dict
ActivitiesEnded ==
    /\ probe.pc = "done"
    /\ probe.fn \in {"get_recent_activities", "get_latest_activities"}
    /\ probe.fetched.exc = "none"
    /\ (IsNone(probe.fetched.val) \/ probe.fetched.val.pa # "null")

\* the result that holds nothing: {}
EmptyResult(fn) == IF fn = "get_recent_activities" THEN NoActivities ELSE NoLatest

\* C23: get_recent_activities and get_latest_activities do not raise on a
\* fetched payload; for a category absent from it the recent list is empty
\* and the latest lookup gives None, and a null payload or one without
\* PetActivity gives the empty result.
C23_AbsentCategory ==
    ActivitiesEnded =>
        LET payload == probe.fetched.val
        IN  /\ probe.out.exc = "none"
            /\ (IsNone(payload) \/ payload.pa = "missing")
                  => probe.out.val = EmptyResult(probe.fn)
            /\ (~IsNone(payload) /\ payload.pa = "dict")
                  => \A c \in Categories :
                        payload.cats[c].st = "missing"
                           => probe.out.val[c] = EmptyResult(probe.fn)[c]

\* a payload with Insulin entries and no BloodGlucose category: the latest
\* lookup has the Insulin entry and None for BloodGlucose
C23_Witness ==
    /\ ActivitiesEnded
    /\ probe.fn = "get_latest_activities"
    /\ ~IsNone(probe.fetched.val)
    /\ probe.fetched.val.pa = "dict"
    /\ probe.fetched.val.cats[RESPONSE_BLOOD_GLUCOSE].st = "missing"
    /\ probe.out.val[RESPONSE_INSULIN].st = "entry"
    /\ probe.out.val[RESPONSE_BLOOD_GLUCOSE] = LatestAbsent

\* the refresh the reauthentication step requested has run and failed, the
\* step not yet returned
RequestedRefreshFailed ==
    /\ rpc = "refresh_requested"
    /\ ~refresh_requested
    /\ cpc = "idle"
    /\ cstate \in {"Failed", "AuthRequired"}

C25_TokenNeverLost ==
    [][(spc = "loaded" /\ session.token # NoToken) => session'.token # NoToken]_vars

\* the fetch that ends in this step failed or returned no glucose reading
FetchFailsOrEmpty ==
    /\ FetchEnds
    /\ \/ fetched'[Len(fetched')].exc # "none"
       \/ fetched'[Len(fetched')].glucose # "readings"

\* C26: no retries.  Every fetch of a poll cycle answers one request, and a
\* cycle makes two fetches at most.  After a fetch that failed or returned no
\* glucose reading the cycle has ended with no request issued; only the first
\* fetch, when it returned readings, is followed by another.  The cycle that
\* ends in AuthRequired leaves no request behind, and a login of the
\* reauthentication step that failed is not posted again by the step.
C26_NoRetries ==
    [][/\ FetchEnds => (request.active /\ cpc \in {"latest", "readings"})
       /\ FetchEnds => Len(fetched') = (IF cpc = "latest" THEN 1 ELSE 2)
       /\ FetchFailsOrEmpty => (cpc' = "idle" /\ request' = NoRequest)
       /\ (FetchEnds /\ cpc' # "idle")
             => /\ cpc = "latest"
                /\ cpc' = "readings"
                /\ fetched'[1].exc = "none"
                /\ fetched'[1].glucose = "readings"
       /\ cstate' = "AuthRequired" => (cpc' = "idle" /\ request' = NoRequest)
       /\ (rpc = "login" /\ rpc' # "logged_in") => rpc' \in {"login", "form", "none"}
       /\ (rpc = "login" /\ rpc' = "form") => errors' # ""
      ]_vars

\* the first fetch of a cycle timed out and the cycle has ended with that
\* one fetch
C26_Witness ==
    /\ cpc = "idle"
    /\ spc = "loaded"
    /\ Len(fetched) = 1
    /\ fetched[1].exc = "AlphaTrakConnectionError"
    /\ cstate = "Failed"
    /\ request = NoRequest

\* async_setup_entry constructs the client of the entry in this step
ConstructsClient ==
    /\ spc = "unloaded"
    /\ spc' = "validating"
    /\ session' = NewClient(entry.token)
    /\ pet_id' = entry.pet_id

\* C27: token and userId of the live client change only in a set_token step
\* (or with the construction of the client), petId only with the
\* construction; the steps of the validation and of a poll cycle, failed or
\* not, leave all three as they were.  The client of the reauthentication
\* step changes only by its construction, its login and its disposal.
C27_SessionFrame ==
    [][/\ session' # session => (CallsSetToken \/ ConstructsClient)
       /\ pet_id' # pet_id => ConstructsClient
       /\ (FetchEnds \/ cpc' # cpc \/ (spc = "validating" /\ spc' # spc))
             => (session' = session /\ pet_id' = pet_id)
       /\ tmp' # tmp => (rpc = "login" \/ tmp' = NewClient(NoToken))
      ]_vars

\* a cycle has ended in AuthRequired and a later one in Ready on the client
\* whose token was replaced in between
C27_Witness ==
    /\ cpc = "idle"
    /\ cstate = "Ready"
    /\ Len(fetched) = 2
    /\ data # <<>>
    /\ session.token = 2
    /\ pet_id = entry.pet_id
    /\ flow_result = "reauth_successful"

\* C28: a request of a poll cycle asks for the 7-day window; the 1-day
\* window is asked for only by the validation of setup, outside every poll
\* cycle; and the coordinator exists, and its first cycle runs, only after
\* the validation fetch has returned a payload that is not null.
C28_Windows ==
    /\ (request.active /\ cpc # "idle") => request.days = POLL_WINDOW_DAYS
    /\ (request.active /\ request.days = VALIDATE_WINDOW_DAYS)
          => (spc = "validating" /\ cpc = "idle")
    /\ request.active => request.days \in {POLL_WINDOW_DAYS, VALIDATE_WINDOW_DAYS}
    /\ spc = "validating" => (request.active /\ request.days = VALIDATE_WINDOW_DAYS)
    /\ cpc # "idle" => spc \in {"first_refresh", "loaded"}
    /\ spc \in {"first_refresh", "loaded"} => validated = "payload"

\* the first cycle of a setup awaits its second fetch, after a validation
\* that returned a payload
C28_Witness ==
    /\ spc = "first_refresh"
    /\ validated = "payload"
    /\ cpc = "readings"
    /\ request.active
    /\ request.days = POLL_WINDOW_DAYS

(***************************************************************************)
(* The 7-day average of the glucose sensor (sensor.py,                     *)
(* extra_state_attributes), for every list of recent readings of up to     *)
(* MaxEntries entries.  GlucoseLevel values are whole numbers; the average *)
(* is held in tenths.                                                      *)
(***************************************************************************)
\* readings without a GlucoseLevel, with a null one and with level 0
E_NOLEVEL == <<Field(DATA_GLUCOSE_ENTRY_DATETIME, StrV(TS_JAN03))>>
E_NULLLEVEL ==
    <<Field(DATA_GLUCOSE_ENTRY_DATETIME, StrV(TS_JAN03)), Field(DATA_GLUCOSE_LEVEL, NoneV)>>
E_ZERO == GlucoseEntry(TS_JAN03, 0)

AverageEntries == {E_JAN01, E_JAN02, E_NOLEVEL, E_NULLLEVEL, E_ZERO}

RECURSIVE SumSeq(_)
\* sum(glucose_values)
SumSeq(values) == IF values = <<>> THEN 0 ELSE Head(values) + SumSeq(Tail(values))

\* round(total / count, 1) in tenths: the nearest tenth, the even one of two
\* that are equally near
RoundTenths(total, count) ==
    LET q == (10 * total) \div count
        r == (10 * total) % count
    IN  IF 2 * r < count THEN q
        ELSE IF 2 * r > count THEN q + 1
        ELSE IF q % 2 = 0 THEN q
        ELSE q + 1

\* the attribute is not set
NoAverage == [present |-> FALSE, tenths |-> 0]

\* [reading.get(DATA_GLUCOSE_LEVEL) for reading in recent_readings
\*  if reading.get(DATA_GLUCOSE_LEVEL) is not None]
GlucoseValues(recent_readings) ==
    LET carrying == SelectSeq(recent_readings,
                              LAMBDA reading : DictGet(reading, DATA_GLUCOSE_LEVEL, NoneV) # NoneV)
    IN  [i \in 1..Len(carrying) |-> DictGet(carrying[i], DATA_GLUCOSE_LEVEL, NoneV).n]

\* an average whose divisor is the number of recent readings
average_last_7_days_over_all(recent_readings) ==
    LET glucose_values == GlucoseValues(recent_readings)
    IN  IF glucose_values = <<>> THEN NoAverage
        ELSE [present |-> TRUE,
              tenths |-> RoundTenths(SumSeq(glucose_values), Len(recent_readings))]

\* attributes["average_last_7_days"]
average_last_7_days(recent_readings) ==
    LET glucose_values == GlucoseValues(recent_readings)
    IN  IF glucose_values = <<>> THEN NoAverage
        ELSE [present |-> TRUE,
              tenths |-> RoundTenths(SumSeq(glucose_values), Len(glucose_values))]

InitAverage ==
    /\ \E srv \in ScenarioServers : InitWith(srv)
    /\ probe \in {[pc |-> "call", fn |-> "extra_state_attributes", recent_readings |-> l,
                   out |-> NoAverage]
                    : l \in ListsUpTo(AverageEntries, MaxEntries)}

\* extra_state_attributes computes the average of the recent readings
ProbeAverage ==
    /\ probe.pc = "call"
    /\ probe.fn = "extra_state_attributes"
    /\ probe' = [probe EXCEPT !.pc = "done",
                              !.out = average_last_7_days(probe.recent_readings)]
    /\ UNCHANGED system_vars

NextAverage == ProbeAverage

SpecAverage == InitAverage /\ [][NextAverage]_vars

AverageDone == probe.pc = "done" /\ probe.fn = "extra_state_attributes"

\* the indices of the readings that carry a GlucoseLevel that is not null
Carrying(readings) ==
    {i \in 1..Len(readings) :
        \E j \in 1..Len(readings[i]) :
            readings[i][j].k = DATA_GLUCOSE_LEVEL /\ readings[i][j].v.kind # "none"}

RECURSIVE LevelSum(_, _)
\* the sum of the GlucoseLevel of the readings with indices in S
LevelSum(readings, S) ==
    IF S = {} THEN 0
    ELSE LET i == CHOOSE x \in S : TRUE
         IN  DictGet(readings[i], DATA_GLUCOSE_LEVEL, NoneV).n + LevelSum(readings, S \ {i})

\* C30: the 7-day average is absent when no recent reading carries a
\* GlucoseLevel that is not null; else it is the tenth nearest to the mean of
\* the levels of exactly the readings that carry one (the even tenth when
\* two are equally near), the divisor being the number of those readings;
\* levels 110 and 95 give 102.5 with or without other readings beside them.
C30_Average ==
    AverageDone =>
        LET readings == probe.recent_readings
            n == Cardinality(Carrying(readings))
            total == LevelSum(readings, Carrying(readings))
            t == probe.out.tenths
            d == IF n * t >= 10 * total THEN n * t - 10 * total ELSE 10 * total - n * t
        IN  /\ probe.out.present <=> n > 0
            /\ n > 0 => /\ 2 * d <= n
                        /\ 2 * d = n => t % 2 = 0
            /\ (n = 2 /\ total = 205) => t = 1025

\* levels 110 and 95 around a reading without the field: 102.5, not 68.3
C30_Witness ==
    /\ AverageDone
    /\ probe.recent_readings = <<E_JAN01, E_NOLEVEL, E_JAN02>>
    /\ probe.out = [present |-> TRUE, tenths |-> 1025]

\* the login of the reauthentication step fails in this step with an error
\* of the client
ReauthLoginFails == rpc = "login" /\ rpc' # rpc /\ logged'.exc \in ClientErrors

\* C31: when the login of a reauthentication step fails with an error of the
\* client, the step shows the form again with invalid_auth for an
\* AlphaTrakAuthError and cannot_connect for the two others; the live client,
\* the config entry, the request in flight and the poll cycle stay as they
\* were, no refresh is requested, and the flow has not ended.
C31_FailedLoginChangesNothing ==
    [][ReauthLoginFails
          => /\ rpc' = "form"
             /\ errors' = (IF logged'.exc = "AlphaTrakAuthError" THEN "invalid_auth"
                           ELSE "cannot_connect")
             /\ flow_result' # "reauth_successful"
             /\ session' = session
             /\ pet_id' = pet_id
             /\ entry' = entry
             /\ refresh_requested' = refresh_requested
             /\ request' = request
             /\ cpc' = cpc
             /\ fetched' = fetched
             /\ data' = data
      ]_vars

\* the form is shown again after a login that could not connect, the entry
\* loaded and client and entry with the token they had
C31_Witness ==
    /\ rpc = "form"
    /\ logged.exc = "AlphaTrakConnectionError"
    /\ errors = "cannot_connect"
    /\ spc = "loaded"
    /\ session.token = 1
    /\ entry = [token |-> 1, username |-> "alice", pet_id |-> 7]
    /\ ~refresh_requested

\* C32: in every snapshot a poll cycle publishes, latest_reading is one of
\* the entries of recent_readings.
C32_LatestAmongRecent ==
    Published =>
        \E i \in 1..Len(data[1].recent_readings) :
            data[1].recent_readings[i] = data[1].latest_reading

\* the last reauthentication flow has ended with reauth_successful
ReauthSucceeded == rpc = "none" /\ flow_result = "reauth_successful"

\* C33: a reauthentication step that found the entry loaded, and so set the
\* token of the live client and requested a refresh, ends with
\* reauth_successful and leaves the token in the config entry equal to the
\* token of the live client, both being the access token its login received;
\* client and entry keep that token until the next flow.
C33_TokensAgree ==
    [][/\ (rpc = "refresh_requested" /\ rpc' # rpc)
             => /\ ReauthSucceeded'
                /\ spc' = "loaded"
                /\ logged'.exc = "none"
                /\ entry'.token = logged'.token
                /\ session'.token = logged'.token
       /\ (ReauthSucceeded /\ spc = "loaded" /\ ReauthSucceeded')
             => (entry'.token = entry.token /\ session'.token = session.token)
      ]_vars

\* the step of a loaded entry has stored the token 2 of its login in the
\* entry and on the live client, which held token 1, and is about to end
C33_Witness ==
    /\ rpc = "refresh_requested"
    /\ spc = "loaded"
    /\ logged = [exc |-> "none", token |-> 2]
    /\ entry.token = 2
    /\ session.token = 2
    /\ entry.username = "bob"

ValidateDone == probe.pc = "done" /\ probe.fn = "validate_connection"

\* C34: validate_connection raises none of the client's errors.  It returns
\* False when its fetch raised AlphaTrakAuthError, AlphaTrakConnectionError or
\* AlphaTrakApiError; when the fetch returned, it returns True exactly when
\* the payload is not None, so False for a 200 with a true flag and a null
\* or missing ResponseData.
C34_ValidateConnection ==
    ValidateDone =>
        /\ probe.out.exc \notin ClientErrors
        /\ probe.fetch.exc \in ClientErrors => probe.out = Return(FALSE)
        /\ probe.fetch.exc = "none" => probe.out = Return(~IsNone(probe.fetch.val))
        /\ (/\ probe.resp.net = "ok"
            /\ probe.resp.status = HTTP_OK
            /\ probe.resp.body = "json"
            /\ probe.resp.is_success = "true"
            /\ probe.resp.data.present \in {"null", "missing"})
              => probe.out = Return(FALSE)
        /\ (/\ probe.resp.net = "ok"
            /\ probe.resp.status = HTTP_UNAUTHORIZED)
              => probe.out = Return(FALSE)

\* a 200 with a true flag and a null ResponseData: the fetch returned None
\* and the validation False
C34_Witness ==
    /\ ValidateDone
    /\ probe.resp.net = "ok"
    /\ probe.resp.status = HTTP_OK
    /\ probe.resp.body = "json"
    /\ probe.resp.is_success = "true"
    /\ probe.resp.data.present = "null"
    /\ probe.fetch.exc = "none"
    /\ probe.out = Return(FALSE)

(***************************************************************************)
(* The credential-collection flow (config_flow.py, async_step_user), one   *)
(* flow from its form to its end, over the config entries of the host.     *)
(* The host creates a config entry when a step returns the result of       *)
(* async_create_entry, with the unique id the flow has at that moment.     *)
(***************************************************************************)
\* what a pet dict gives for pet.get("PetId") or pet.get("Id") or pet.get("id"):
\* something int() converts, something it does not, or None
PidInt(n) == [kind |-> "int", n |-> n]
PidBad == [kind |-> "str", n |-> 0]
PidNone == [kind |-> "none", n |-> 0]

\* unique ids: str(username) of the user step, str(pid) of the helper
UidUser(name) == [user |-> name, pet |-> NoPet]
UidPet(pid) == [user |-> "", pet |-> pid]

\* a config entry: its unique id and its data
ConfigEntry(uid, tok, pid, name) ==
    [unique_id |-> uid, token |-> tok, pet_id |-> pid, username |-> name]

\* self._abort_if_unique_id_configured()
UniqueIdConfigured(entries, uid) == \E i \in 1..Len(entries) : entries[i].unique_id = uid

\* errors["base"] for what validate_input raised; "" for what the step lets
\* out
UserStepError(exc) ==
    IF exc = "AlphaTrakAuthError" THEN "invalid_auth"
    ELSE IF exc \in {"AlphaTrakConnectionError", "AlphaTrakApiError"} THEN "cannot_connect"
    ELSE IF exc \in {"RuntimeError", "ValueError", "TypeError", "KeyError"} THEN "unknown"
    ELSE ""

RECURSIVE CreateLoop(_, _, _, _, _, _)
\* the loop of _create_entries_for_pets over the pets left: the calls of
\* async_create_entry it makes, whose results it drops, the pets it lists for
\* the summary, and whether it was aborted
CreateLoop(pets, configured_ids, entries, tok, name, acc) ==
    IF pets = <<>> THEN acc
    ELSE LET pet == Head(pets)
         IN  IF pet.kind # "int" \/ pet.n \in configured_ids
             THEN CreateLoop(Tail(pets), configured_ids, entries, tok, name, acc)
             ELSE IF UniqueIdConfigured(entries, UidPet(pet.n))
             THEN [acc EXCEPT !.aborted = TRUE]
             ELSE CreateLoop(Tail(pets), configured_ids, entries, tok, name,
                             [acc EXCEPT
                                !.calls = Append(@, ConfigEntry(UidPet(pet.n), tok, pet.n, name)),
                                !.info = Append(@, pet.n)])

\* ConfigFlow._create_entries_for_pets(pets, username)
_create_entries_for_pets(pets, entries, tok, name) ==
    CreateLoop(pets, {entries[i].pet_id : i \in 1..Len(entries)}, entries, tok, name,
               [aborted |-> FALSE, calls |-> <<>>, info |-> <<>>])

\* the accounts that run the flow; alice's entry, when there is one, was
\* made by an earlier flow of hers for her only pet
FlowUsernames == {"alice", "bob"}
FlowEntries == {<<>>, <<ConfigEntry(UidUser("alice"), 1, 7, "alice")>>}

\* the lists of pets the service can return
FlowPetLists == ListsUpTo({PidInt(7), PidInt(8), PidBad, PidNone}, MaxPets)

\* Every answer to the get_pets request of the flow.
FlowPetsResponses ==
    {PetsNetFailure(k) : k \in {"timeout", "client_error", "cancelled"}}
    \cup {PetsResponse(st, "json", f, [st |-> "list", l |-> l]) :
            st \in Statuses, f \in SuccessFlags, l \in FlowPetLists}
    \cup {PetsResponse(HTTP_OK, "json", "true", [st |-> k, l |-> <<>>]) :
            k \in {"null", "missing", "not_list"}}
    \cup {PetsResponse(HTTP_OK, b, "missing", [st |-> "missing", l |-> <<>>]) :
            b \in Bodies \ {"json"}}

InitFlow ==
    /\ \E srv \in ScenarioServers : InitWith(srv)
    /\ probe \in {[pc |-> "form", fn |-> "async_step_user", entries |-> es, before |-> es,
                   username |-> "", session |-> NoSession, errors |-> "", result |-> "",
                   pets |-> <<>>, calls |-> <<>>, info |-> <<>>]
                    : es \in FlowEntries}

\* the step ends for what validate_input raised: the form again with an
\* error, or the exception let out
FlowRaises(exc) ==
    IF UserStepError(exc) # ""
    THEN probe' = [probe EXCEPT !.pc = "form", !.errors = UserStepError(exc)]
    ELSE probe' = [probe EXCEPT !.pc = "done", !.result = exc]

\* The user submits the form: the unique id is set and checked, and
\* validate_input posts the login on a client of its own.
FlowSubmit(name) ==
    /\ probe.pc = "form"
    /\ probe.fn = "async_step_user"
    /\ IF UniqueIdConfigured(probe.entries, UidUser(name))
       THEN probe' = [probe EXCEPT !.pc = "done", !.result = "already_configured",
                                   !.username = name]
       ELSE probe' = [probe EXCEPT !.pc = "login", !.username = name, !.errors = "",
                                   !.session = NoSession]
    /\ UNCHANGED system_vars

\* The login answers: validate_input raises, or get_pets sends its request.
FlowLoginResponse(resp) ==
    /\ probe.pc = "login"
    /\ LET r == login(probe.session, resp)
       IN  IF r.exc # "none" THEN FlowRaises(r.exc)
           ELSE IF get_pets_guard(r.session) # "none"
           THEN FlowRaises(get_pets_guard(r.session))
           ELSE probe' = [probe EXCEPT !.pc = "pets", !.session = r.session]
    /\ UNCHANGED system_vars

\* get_pets answers: the rest of async_step_user.
FlowPetsResponse(resp) ==
    /\ probe.pc = "pets"
    /\ LET g == get_pets(resp)
           pets == g.val
           token == probe.session.token
           created == _create_entries_for_pets(pets, probe.entries, token, probe.username)
       IN  IF g.exc # "none" THEN FlowRaises(g.exc)
           ELSE IF pets = <<>>
           THEN probe' = [probe EXCEPT !.pc = "form", !.errors = "no_pets_found",
                                       !.pets = pets]
           ELSE IF Len(pets) = 1 /\ pets[1].kind = "int"
           THEN probe' = [probe EXCEPT
                             !.pc = "done", !.result = "create_entry", !.pets = pets,
                             !.entries = Append(@, ConfigEntry(UidUser(probe.username), token,
                                                               pets[1].n, probe.username))]
           ELSE IF created.aborted
           THEN probe' = [probe EXCEPT !.pc = "done", !.result = "already_configured",
                                       !.pets = pets]
           ELSE IF created.info # <<>>
           THEN probe' = [probe EXCEPT !.pc = "summary", !.pets = pets,
                                       !.calls = created.calls, !.info = created.info]
           ELSE probe' = [probe EXCEPT !.pc = "form", !.errors = "no_new_pets",
                                       !.pets = pets]
    /\ UNCHANGED system_vars

\* The user confirms the summary: async_abort(reason="created_pets").
FlowSummarySubmit ==
    /\ probe.pc = "summary"
    /\ probe' = [probe EXCEPT !.pc = "done", !.result = "created_pets"]
    /\ UNCHANGED system_vars

NextFlow ==
    \/ \E name \in FlowUsernames : FlowSubmit(name)
    \/ \E resp \in LoginResponses : FlowLoginResponse(resp)
    \/ \E resp \in FlowPetsResponses : FlowPetsResponse(resp)
    \/ FlowSummarySubmit

SpecFlow == InitFlow /\ [][NextFlow]_vars

\* C35: the credential-collection flow leaves no two config entries with the
\* same pet id, whether the other entry was there before the flow or was
\* made by it; every entry it makes holds the token of its login and an
\* integer pet id; and a login that returns no pets makes no entry and shows
\* no_pets_found.
C35_NoDuplicateEntries ==
    /\ \A i, j \in 1..Len(probe.entries) :
          i # j => probe.entries[i].pet_id # probe.entries[j].pet_id
    /\ \A i \in (Len(probe.before) + 1)..Len(probe.entries) :
          /\ probe.entries[i].token = probe.session.token
          /\ probe.entries[i].token # NoToken
          /\ probe.entries[i].pet_id \in Nat \ {NoPet}
    /\ (probe.pc = "form" /\ probe.errors = "no_pets_found")
          => (probe.pets = <<>> /\ probe.entries = probe.before)

=============================================================================
